---------------------------- MODULE Spec2Model ----------------------------
(***************************************************************************)
(* TV Library Consolidator (src/tvconsolidator.py) and the source-folder   *)
(* cleanup, the blocking command call and the pipeline of the Radarr       *)
(* Organizer (src/radarr-proper-import.py).                                *)
(*                                                                         *)
(* The model follows the program text: scan_library builds the inventory   *)
(* from the file system, process_consolidation works through the series in *)
(* sorted-key order (conflict check, target selection, episodes,           *)
(* artifacts, cleanup), and the four file operations safe_move,            *)
(* force_move, safe_delete and cleanup_folder_tree change the file system  *)
(* only when dry_run is false.                                             *)
(*                                                                         *)
(* Conventions.                                                            *)
(*  - A file or folder name is a string; Chars gives its characters as a   *)
(*    sequence of one-character strings, on which the regular expressions, *)
(*    lower(), strip() and startswith() are computed character by          *)
(*    character.                                                           *)
(*  - A file path is a record [root, folder, rel, name]: the root given on *)
(*    the command line, the series folder below it, the directory below    *)
(*    the series folder (a sequence of components, <<>> for the series     *)
(*    folder itself) and the base name.  A directory is [root, folder,     *)
(*    rel].                                                                *)
(*  - Sizes are counted in units of 10 MiB: MIN_VIDEO_SIZE (50 MiB) is 5   *)
(*    and MIN_FREE_BUFFER (100 GiB) is 10240.                              *)
(*  - os.listdir order is the order of the sequences FOLDERS, DIRNAMES and *)
(*    NAMES (one fixed enumeration order of the file system).              *)
(*  - Under Spec and SpecOps the file system is reliable: a call fails     *)
(*    only for the reasons the code tests for (missing source, existing    *)
(*    destination, non-empty directory).  Under SpecIO a directory entry   *)
(*    may be unreadable (os.stat fails on it, get_file_info gives -1) and  *)
(*    the move of an episode file in safe_move may raise.                  *)
(*  - Under SpecArgs the root list is one of RootLists: two roots, the     *)
(*    same string twice, or a second spelling of the first root ("A/"),    *)
(*    which os.path.abspath maps to the same directory; the process may    *)
(*    be interrupted at any step of a run.                                 *)
(*                                                                         *)
(* Radarr Organizer (src/radarr-proper-import.py): SpecRadarr is one call  *)
(* of cleanup_source_folder, entry by entry of the listing of the source   *)
(* folder.                                                                 *)
(* SpecBlocking is one call of execute_blocking, round by round of its     *)
(* polling loop, with the clock in ticks of half a second;                 *)
(* SpecBlockingLive adds that the loop keeps running.  SpecPipeline is one *)
(* call of process_single_item, step by step.                              *)
(***************************************************************************)
EXTENDS Integers, Sequences, FiniteSets, TLC

(***************************************************************************)
(* Program constants (src/tvconsolidator.py:39-53)                         *)
(***************************************************************************)
MIN_FREE_BUFFER == 10240

MIN_VIDEO_SIZE == 5

JUNK_FILES ==
    { <<".", "p", "l", "e", "x", "m", "a", "t", "c", "h">>,
      <<".", "d", "s", "_", "s", "t", "o", "r", "e">>,
      <<"t", "h", "u", "m", "b", "s", ".", "d", "b">>,
      <<"d", "e", "s", "k", "t", "o", "p", ".", "i", "n", "i">> }

(***************************************************************************)
(* Characters                                                              *)
(***************************************************************************)
Digits == <<"0", "1", "2", "3", "4", "5", "6", "7", "8", "9">>

IsDigit(c) == \E i \in 1..10 : Digits[i] = c

DigitVal(c) == (CHOOSE i \in 1..10 : Digits[i] = c) - 1

Uppers == <<"C", "D", "E", "F", "S", "T", "V", "X">>

Lowers == <<"c", "d", "e", "f", "s", "t", "v", "x">>

\* str.lower() on one character
LowerChar(c) ==
    IF \E i \in 1..Len(Uppers) : Uppers[i] = c
    THEN Lowers[CHOOSE i \in 1..Len(Uppers) : Uppers[i] = c]
    ELSE c

\* str.lower()
Lower(s) == [i \in 1..Len(s) |-> LowerChar(s[i])]

\* \s of the regular expressions, and what str.strip() removes
IsSpace(c) == c = " "

\* str.startswith(prefix)
StartsWith(s, prefix) ==
    /\ Len(prefix) <= Len(s)
    /\ SubSeq(s, 1, Len(prefix)) = prefix

\* code points, for sorted() on the normalized keys
CodeOrder ==
    <<" ", ".", "0", "1", "2", "3", "4", "5", "6", "7", "8", "9",
      "D", "E", "S", "T", "V", "X", "_",
      "a", "b", "c", "d", "e", "h", "i", "k", "l", "m", "n", "o", "p",
      "r", "s", "t", "u", "v", "x">>

Ord(c) == CHOOSE i \in 1..Len(CodeOrder) : CodeOrder[i] = c

RECURSIVE StrLess(_, _)
\* a < b for Python strings
StrLess(a, b) ==
    IF b = <<>> THEN FALSE
    ELSE IF a = <<>> THEN TRUE
    ELSE IF Ord(Head(a)) # Ord(Head(b)) THEN Ord(Head(a)) < Ord(Head(b))
    ELSE StrLess(Tail(a), Tail(b))

(***************************************************************************)
(* normalize_name (src/tvconsolidator.py:55-64)                            *)
(***************************************************************************)
\* re.sub(r'[._]', ' ', name)
DotsToSpaces(s) ==
    [i \in 1..Len(s) |-> IF s[i] = "." \/ s[i] = "_" THEN " " ELSE s[i]]

RECURSIVE LStrip(_)
LStrip(s) ==
    IF s # <<>> /\ IsSpace(Head(s)) THEN LStrip(Tail(s)) ELSE s

RECURSIVE RStrip(_)
RStrip(s) ==
    IF s # <<>> /\ IsSpace(s[Len(s)]) THEN RStrip(SubSeq(s, 1, Len(s) - 1))
    ELSE s

\* str.strip()
Strip(s) == RStrip(LStrip(s))

RECURSIVE CollapseSpaces(_)
\* re.sub(r'\s+', ' ', s)
CollapseSpaces(s) ==
    IF s = <<>> THEN <<>>
    ELSE IF IsSpace(Head(s))
         THEN <<" ">> \o CollapseSpaces(LStrip(s))
         ELSE <<Head(s)>> \o CollapseSpaces(Tail(s))

\* normalize_name without .lower()
normalize_name_cased(name) == CollapseSpaces(Strip(DotsToSpaces(name)))

normalize_name(name) == CollapseSpaces(Lower(Strip(DotsToSpaces(name))))

(***************************************************************************)
(* PATTERN = re.compile(r'(?i)S(\d+)E(\d+)')  (src/tvconsolidator.py:50)   *)
(***************************************************************************)
RECURSIVE DigitRunEnd(_, _)
\* the index of the last character of the run of digits starting at i
\* (i - 1 when s[i] is no digit)
DigitRunEnd(s, i) ==
    IF i <= Len(s) /\ IsDigit(s[i]) THEN DigitRunEnd(s, i + 1) ELSE i - 1

RECURSIVE DigitsInt(_)
\* int() of a sequence of digits
DigitsInt(ds) ==
    IF ds = <<>> THEN 0
    ELSE 10 * DigitsInt(SubSeq(ds, 1, Len(ds) - 1)) + DigitVal(ds[Len(ds)])

\* whether the pattern matches at position i
MatchesAt(s, i) ==
    /\ i <= Len(s)
    /\ LowerChar(s[i]) = "s"
    /\ LET j == DigitRunEnd(s, i + 1)
       IN /\ j >= i + 1
          /\ j + 1 <= Len(s)
          /\ LowerChar(s[j + 1]) = "e"
          /\ DigitRunEnd(s, j + 2) >= j + 2

\* PATTERN.search(f) is not None
PatternMatches(s) == \E i \in 1..Len(s) : MatchesAt(s, i)

\* PATTERN.search(f): the leftmost match, as [s, e, match_end]
PatternSearch(s) ==
    LET i == CHOOSE i \in 1..Len(s) :
                 MatchesAt(s, i) /\ \A h \in 1..(i - 1) : ~MatchesAt(s, h)
        j == DigitRunEnd(s, i + 1)
        k == DigitRunEnd(s, j + 2)
    IN [s |-> DigitsInt(SubSeq(s, i + 1, j)),
        e |-> DigitsInt(SubSeq(s, j + 2, k)),
        match_end |-> k]

(***************************************************************************)
(* The file system.  fs maps each existing file path to its size, dirs is  *)
(* the set of existing directories below the roots, free maps each root to *)
(* the free bytes of its volume.  F stands for a record [fs, dirs, free];  *)
(* the file operations return F with the log lines they print and their    *)
(* return value: [fs, dirs, free, log, ok].                                *)
(***************************************************************************)
\* the listing order of series folders, of directory names and of file names
FOLDERS == <<"T.V", "t_v", "X">>

DIRNAMES == <<"S1">>

NAMES == <<"S1E1", "s01e1", ".DS_Store", "Thumbs.db", "S1E2", ".keep">>

\* the characters of the names
Spelling ==
    ("T.V" :> <<"T", ".", "V">>)
    @@ ("t_v" :> <<"t", "_", "v">>)
    @@ ("X" :> <<"X">>)
    @@ ("S1" :> <<"S", "1">>)
    @@ ("S1E1" :> <<"S", "1", "E", "1">>)
    @@ ("S1E2" :> <<"S", "1", "E", "2">>)
    @@ ("s01e1" :> <<"s", "0", "1", "e", "1">>)
    @@ (".DS_Store" :> <<".", "D", "S", "_", "S", "t", "o", "r", "e">>)
    @@ ("Thumbs.db" :> <<"T", "h", "u", "m", "b", "s", ".", "d", "b">>)
    @@ (".keep" :> <<".", "k", "e", "e", "p">>)
    @@ ("Sample.TS" :> <<"S", "a", "m", "p", "l", "e", ".", "T", "S">>)
    @@ ("x.nfo" :> <<"x", ".", "n", "f", "o">>)
    @@ ("s.nfo" :> <<"s", ".", "n", "f", "o">>)
    @@ ("x.TXT" :> <<"x", ".", "T", "X", "T">>)
    @@ ("sample.srt" :> <<"s", "a", "m", "p", "l", "e", ".", "s", "r", "t">>)
    @@ ("x.srt" :> <<"x", ".", "s", "r", "t">>)
    @@ ("Subs" :> <<"S", "u", "b", "s">>)
    @@ ("X.mkv" :> <<"X", ".", "m", "k", "v">>)
    @@ ("X.nfo-orig" :> <<"X", ".", "n", "f", "o", "-", "o", "r", "i", "g">>)
    @@ (".nfo-orig" :> <<".", "n", "f", "o", "-", "o", "r", "i", "g">>)
    @@ (".nfo" :> <<".", "n", "f", "o">>)
    @@ ("sample" :> <<"s", "a", "m", "p", "l", "e">>)
    @@ ("completed" :> <<"c", "o", "m", "p", "l", "e", "t", "e", "d">>)
    @@ ("Completed" :> <<"C", "o", "m", "p", "l", "e", "t", "e", "d">>)
    @@ ("failed" :> <<"f", "a", "i", "l", "e", "d">>)
    @@ ("Failed" :> <<"F", "a", "i", "l", "e", "d">>)
    @@ ("queued" :> <<"q", "u", "e", "u", "e", "d">>)
    @@ ("started" :> <<"s", "t", "a", "r", "t", "e", "d">>)
    @@ ("unknown" :> <<"u", "n", "k", "n", "o", "w", "n">>)

Chars(name) == Spelling[name]

\* os.path.join(dir, name)
Join(dir, name) ==
    [root |-> dir.root, folder |-> dir.folder, rel |-> dir.rel, name |-> name]

\* os.path.dirname(path)
DirOf(p) == [root |-> p.root, folder |-> p.folder, rel |-> p.rel]

\* os.path.join(root, folder): the series folder
SeriesDir(root, folder) == [root |-> root, folder |-> folder, rel |-> <<>>]

\* os.path.join(series folder, rel_dir)
SubDir(dir, rel) ==
    [root |-> dir.root, folder |-> dir.folder, rel |-> dir.rel \o rel]

\* dir and the directories above it, up to the series folder
Ancestors(dir) ==
    { [root |-> dir.root, folder |-> dir.folder, rel |-> SubSeq(dir.rel, 1, k)] :
        k \in 0..Len(dir.rel) }

\* whether d is below top, or top itself
IsUnder(d, top) ==
    /\ d.root = top.root
    /\ d.folder = top.folder
    /\ StartsWith(d.rel, top.rel)

\* the size get_file_info returns for a file that os.stat cannot read
UNREADABLE == -1

\* os.path.exists(path) for a file path: os.stat succeeds on it.  A directory
\* entry that os.stat cannot read (a dangling link, an I/O error) is listed
\* by os.walk and os.listdir, and does not exist for os.path.exists
Exists(F, p) == p \in DOMAIN F.fs /\ F.fs[p] # UNREADABLE

\* the files of os.listdir(dir) / the filenames of os.walk, in listing order
FilesIn(F, dir) == SelectSeq(NAMES, LAMBDA n : Join(dir, n) \in DOMAIN F.fs)

\* the directories of os.listdir(dir), in listing order
SubDirsOf(F, dir) ==
    SelectSeq([i \in 1..Len(DIRNAMES) |-> SubDir(dir, <<DIRNAMES[i]>>)],
              LAMBDA d : d \in F.dirs)

\* os.listdir(dir) == []
ListDirEmpty(F, dir) == FilesIn(F, dir) = <<>> /\ SubDirsOf(F, dir) = <<>>

RECURSIVE Walk(_, _, _)
\* os.walk over the directories ds and everything below them
Walk(F, ds, topdown) ==
    IF ds = <<>> THEN <<>>
    ELSE LET d == Head(ds)
             below == Walk(F, SubDirsOf(F, d), topdown)
         IN (IF topdown THEN <<d>> \o below ELSE below \o <<d>>)
                \o Walk(F, Tail(ds), topdown)

\* the function f without the argument p
Without(f, p) == [q \in DOMAIN f \ {p} |-> f[q]]

\* the file system after the file p has been removed (os.remove)
RemoveFile(F, p) ==
    [fs |-> Without(F.fs, p),
     dirs |-> F.dirs,
     free |-> [F.free EXCEPT ![p.root] = @ + F.fs[p]]]

\* the file system after src has been moved to dst (shutil.move), dst absent
\* or an unreadable entry that the move replaces
MoveFile(F, src, dst) ==
    [fs |-> (dst :> F.fs[src]) @@ Without(F.fs, src),
     dirs |-> F.dirs,
     free |-> [[F.free EXCEPT ![src.root] = @ + F.fs[src]]
                  EXCEPT ![dst.root] = @ - F.fs[src]]]

\* the file system after src has been copied to dst (shutil.move between two
\* volumes, before the source is removed), dst absent
CopyFile(F, src, dst) ==
    [fs |-> (dst :> F.fs[src]) @@ F.fs,
     dirs |-> F.dirs,
     free |-> [F.free EXCEPT ![dst.root] = @ - F.fs[src]]]

\* os.makedirs(dir, exist_ok=True)
MakeDirs(F, dir) ==
    [fs |-> F.fs, dirs |-> F.dirs \cup Ancestors(dir), free |-> F.free]

\* os.path.abspath(root_path) of a root given on the command line (line
\* 212): "A/" is a second spelling of the root "A".  Every path the program
\* joins from a root names the file below abspath of that root
abspath(root_path) == IF root_path = "A/" THEN "A" ELSE root_path

\* get_free_space (src/tvconsolidator.py:66-72)
get_free_space(F, root) == F.free[abspath(root)]

\* get_file_info (src/tvconsolidator.py:74-79): the size, UNREADABLE when
\* os.path.getsize raises
get_file_info(F, p) == F.fs[p]

Line(tag, op, path) == [tag |-> tag, op |-> op, path |-> path]

Result(F, log, ok) ==
    [fs |-> F.fs, dirs |-> F.dirs, free |-> F.free, log |-> log, ok |-> ok]

(***************************************************************************)
(* Action functions (src/tvconsolidator.py:83-182)                         *)
(***************************************************************************)
\* how the calls of lines 99-100 may end: without an exception ("ok"), or
\* with one raised by os.makedirs ("makedirs"), by shutil.move before
\* anything was written ("move"), or by shutil.move after the file was
\* copied to the destination and before the source was removed ("copied")
IO_ERRORS == {"makedirs", "move", "copied"}

\* lines 98-107: os.makedirs and shutil.move, and the except branch when
\* one of them raises
MoveOrRaise(F, src, dest_dir, dst_path, io) ==
    CASE io = "ok" ->
            Result(MoveFile(MakeDirs(F, dest_dir), src, dst_path),
                   <<Line("MOVED", "move", src)>>, TRUE)
      [] io = "makedirs" ->
            Result(F, <<Line("CRITICAL ERROR", "failed", src)>>, FALSE)
      [] io = "move" ->
            Result(MakeDirs(F, dest_dir),
                   <<Line("CRITICAL ERROR", "failed", src)>>, FALSE)
      [] io = "copied" ->
            Result(CopyFile(MakeDirs(F, dest_dir), src, dst_path),
                   <<Line("CRITICAL ERROR", "failed", src)>>, FALSE)

\* safe_move without the test of line 94
safe_move_overwriting(F, src, dest_dir, dry_run, io) ==
    IF ~Exists(F, src)
    THEN Result(F, <<Line("ERROR", "missing", src)>>, FALSE)
    ELSE IF ~dry_run
    THEN MoveOrRaise(F, src, dest_dir, Join(dest_dir, src.name), io)
    ELSE Result(F, <<Line("DRY-RUN", "move", src)>>, TRUE)

\* safe_move; io tells how os.makedirs and shutil.move end when they are
\* called
safe_move(F, src, dest_dir, dry_run, io) ==
    IF ~Exists(F, src)
    THEN Result(F, <<Line("ERROR", "missing", src)>>, FALSE)
    ELSE IF Exists(F, Join(dest_dir, src.name))
    THEN Result(F, <<Line("ABORT", "collision", Join(dest_dir, src.name))>>, FALSE)
    ELSE IF ~dry_run
    THEN MoveOrRaise(F, src, dest_dir, Join(dest_dir, src.name), io)
    ELSE Result(F, <<Line("DRY-RUN", "move", src)>>, TRUE)

force_move(F, src, dest_dir, dry_run) ==
    LET dst_path == Join(dest_dir, src.name)
        made == MakeDirs(F, dest_dir)
    IN IF ~Exists(F, src)
       THEN Result(F, <<>>, FALSE)
       ELSE IF ~dry_run
       THEN IF Exists(made, dst_path)
            THEN IF dst_path = src
                 \* os.remove(dst_path) removed the source: shutil.move raises
                 THEN Result(RemoveFile(made, dst_path),
                             <<Line("ERROR", "merge", src)>>, FALSE)
                 ELSE Result(MoveFile(RemoveFile(made, dst_path), src, dst_path),
                             <<Line("MERGED", "merge", src)>>, TRUE)
            ELSE Result(MoveFile(made, src, dst_path),
                        <<Line("MERGED", "merge", src)>>, TRUE)
       ELSE Result(F, <<Line("DRY-RUN", "merge", src)>>, TRUE)

\* safe_delete without the test of line 138
safe_delete_always(F, src, dry_run) ==
    IF Exists(F, src)
    THEN Result(RemoveFile(F, src), <<Line("DELETED", "delete", src)>>, TRUE)
    ELSE Result(F, <<>>, TRUE)

safe_delete(F, src, dry_run) ==
    IF ~dry_run
    THEN IF Exists(F, src)
         THEN Result(RemoveFile(F, src), <<Line("DELETED", "delete", src)>>, TRUE)
         ELSE Result(F, <<>>, TRUE)
    ELSE Result(F, <<Line("DRY-RUN", "delete", src)>>, TRUE)

RECURSIVE CleanFiles(_, _, _, _)
\* the loop over the files of one directory (lines 160-167): junk is
\* deleted; R.ok is is_empty
CleanFiles(R, dir, files, dry_run) ==
    IF files = <<>> THEN R
    ELSE LET f == Head(files)
         IN IF Lower(Chars(f)) \in JUNK_FILES
            THEN LET D == safe_delete(R, Join(dir, f), dry_run)
                 IN CleanFiles(Result(D, R.log \o D.log, R.ok),
                               dir, Tail(files), dry_run)
            ELSE CleanFiles(Result(R, R.log, FALSE), dir, Tail(files), dry_run)

\* the loop body without the test of line 175: the directory is removed
\* with whatever it still holds
CleanDir_unchecked(R, dir, files, dry_run) ==
    LET C == CleanFiles(Result(R, R.log, TRUE), dir, files, dry_run)
    IN IF C.ok
       THEN IF ~dry_run
            THEN Result([fs |-> C.fs, dirs |-> C.dirs \ {dir}, free |-> C.free],
                        C.log \o <<Line("CLEANUP", "rmdir", dir)>>, TRUE)
            ELSE Result(C, C.log \o <<Line("DRY-RUN", "rmdir", dir)>>, TRUE)
       ELSE Result(C, C.log, TRUE)

\* one iteration of the os.walk loop (lines 157-182)
CleanDir(R, dir, files, dry_run) ==
    LET C == CleanFiles(Result(R, R.log, TRUE), dir, files, dry_run)
    IN IF C.ok
       THEN IF ~dry_run
            THEN IF ListDirEmpty(C, dir)
                 THEN Result([fs |-> C.fs, dirs |-> C.dirs \ {dir}, free |-> C.free],
                             C.log \o <<Line("CLEANUP", "rmdir", dir)>>, TRUE)
                 ELSE Result(C, C.log, TRUE)
            ELSE Result(C, C.log \o <<Line("DRY-RUN", "rmdir", dir)>>, TRUE)
       ELSE Result(C, C.log, TRUE)

RECURSIVE CleanWalk(_, _, _, _)
\* the os.walk loop over the directories ds; listing[d] is the file list
\* os.walk read for d
CleanWalk(R, ds, listing, dry_run) ==
    IF ds = <<>> THEN R
    ELSE CleanWalk(CleanDir(R, Head(ds), listing[Head(ds)], dry_run),
                   Tail(ds), listing, dry_run)

cleanup_folder_tree(F, path, dry_run) ==
    IF path \notin F.dirs THEN Result(F, <<>>, TRUE)
    ELSE LET ds == Walk(F, <<path>>, FALSE)
             listing == [d \in {ds[i] : i \in 1..Len(ds)} |-> FilesIn(F, d)]
         IN CleanWalk(Result(F, <<>>, TRUE), ds, listing, dry_run)

(***************************************************************************)
(* Sequence helpers                                                        *)
(***************************************************************************)
Range(s) == {s[i] : i \in 1..Len(s)}

\* the first index of s whose element satisfies Test, 0 when there is none
IndexOf(s, Test(_)) ==
    IF \E i \in 1..Len(s) : Test(s[i])
    THEN CHOOSE i \in 1..Len(s) : Test(s[i]) /\ \A h \in 1..(i - 1) : ~Test(s[h])
    ELSE 0

RECURSIVE SumSeq(_)
\* sum(s) for a sequence of integers
SumSeq(s) == IF s = <<>> THEN 0 ELSE Head(s) + SumSeq(Tail(s))

RECURSIVE Flatten(_)
\* the concatenation of a sequence of sequences
Flatten(ss) == IF ss = <<>> THEN <<>> ELSE Head(ss) \o Flatten(Tail(ss))

RECURSIVE Dedupe(_)
\* the elements of s in the order of their first occurrence
\* (the key order of a dict filled in the order of s)
Dedupe(s) ==
    IF s = <<>> THEN <<>>
    ELSE LET init == Dedupe(SubSeq(s, 1, Len(s) - 1))
         IN IF s[Len(s)] \in Range(init) THEN init ELSE Append(init, s[Len(s)])

RECURSIVE InsertDesc(_, _, _)
\* the index i put into idxs, which is ordered by descending keys, behind
\* every index whose key is not smaller
InsertDesc(idxs, i, keys) ==
    IF idxs = <<>> THEN <<i>>
    ELSE IF keys[Head(idxs)] < keys[i] THEN <<i>> \o idxs
    ELSE <<Head(idxs)>> \o InsertDesc(Tail(idxs), i, keys)

RECURSIVE SortIdxDesc(_, _)
\* the indices 1..n ordered by descending keys, equal keys in their original
\* order: list.sort(key=..., reverse=True) and sorted(..., reverse=True)
SortIdxDesc(n, keys) ==
    IF n = 0 THEN <<>> ELSE InsertDesc(SortIdxDesc(n - 1, keys), n, keys)

\* s ordered by descending Key, stable
SortedDesc(s, Key(_)) ==
    LET idxs == SortIdxDesc(Len(s), [i \in 1..Len(s) |-> Key(s[i])])
    IN [i \in 1..Len(s) |-> s[idxs[i]]]

(***************************************************************************)
(* scan_library (src/tvconsolidator.py:186-317)                            *)
(*                                                                         *)
(* The library is the sequence of its entries in the order in which their  *)
(* keys were inserted; an entry is [key, display_name, disks, episodes,    *)
(* artifacts], each dict of the program being the sequence of its items in *)
(* insertion order.                                                        *)
(***************************************************************************)
\* the slot (season, episode) a matching file name stands for
SlotOf(f) == <<PatternSearch(Chars(f)).s, PatternSearch(Chars(f)).e>>

\* lines 248-259: the record of a matching file
MatchedFile(F, dirpath, f) ==
    [filename |-> f,
     path |-> Join(dirpath, f),
     size |-> get_file_info(F, Join(dirpath, f)),
     match_end |-> PatternSearch(Chars(f)).match_end]

\* lines 277-280 and 287-289: the smaller files of the group, then the
\* unmatched files that start with the prefix
Companions(F, dirpath, others, byPrefix) ==
    [i \in 1..Len(others) |-> [path |-> others[i].path, size |-> others[i].size]]
    \o [i \in 1..Len(byPrefix) |->
            [path |-> Join(dirpath, byPrefix[i]),
             size |-> get_file_info(F, Join(dirpath, byPrefix[i]))]]

\* lines 274-300: the entry of the episode copy
CopyEntry(root_path, dirpath, candidate, companions) ==
    [path |-> candidate.path,
     size |-> candidate.size,
     total_size |-> candidate.size
         + SumSeq([i \in 1..Len(companions) |-> companions[i].size]),
     disk |-> root_path,
     rel_dir |-> dirpath.rel,
     companions |-> companions]

\* lines 283-286: the unmatched files, not yet claimed, that start with the
\* candidate's name up to the end of its match
PrefixMatched(candidate, claimed, unmatched_files) ==
    SelectSeq(unmatched_files,
              LAMBDA u : /\ u \notin claimed
                         /\ StartsWith(Chars(u),
                                       SubSeq(Chars(candidate.filename), 1,
                                              candidate.match_end)))

\* lines 271-304 for a group whose largest file is an episode
ClaimGroup(F, root_path, dirpath, slot, group, byPrefix, acc) ==
    [claimed |-> acc.claimed \cup {m.filename : m \in Range(group)}
                    \cup Range(byPrefix),
     eps |-> Append(acc.eps,
                    [slot |-> slot,
                     copy |-> CopyEntry(root_path, dirpath, Head(group),
                                        Companions(F, dirpath, Tail(group),
                                                   byPrefix))])]

\* ScanSorted that keeps a file of unknown size as the episode of its group
ScanSorted_unreadable(F, root_path, dirpath, slot, group, unmatched_files, acc) ==
    IF Head(group).size > MIN_VIDEO_SIZE \/ Head(group).size = UNREADABLE
    THEN ClaimGroup(F, root_path, dirpath, slot, group,
                    PrefixMatched(Head(group),
                                  acc.claimed \cup {m.filename : m \in Range(group)},
                                  unmatched_files),
                    acc)
    ELSE acc

\* ScanSorted without the test of line 270
ScanSorted_any(F, root_path, dirpath, slot, group, unmatched_files, acc) ==
    ClaimGroup(F, root_path, dirpath, slot, group,
               PrefixMatched(Head(group),
                             acc.claimed \cup {m.filename : m \in Range(group)},
                             unmatched_files),
               acc)

\* lines 267-304 for a group sorted by descending size
ScanSorted(F, root_path, dirpath, slot, group, unmatched_files, acc) ==
    IF Head(group).size > MIN_VIDEO_SIZE
    THEN ClaimGroup(F, root_path, dirpath, slot, group,
                    PrefixMatched(Head(group),
                                  acc.claimed \cup {m.filename : m \in Range(group)},
                                  unmatched_files),
                    acc)
    ELSE acc

\* lines 266-304 for one group: acc is [claimed, eps]
ScanGroup(F, root_path, dirpath, slot, matched, unmatched_files, acc) ==
    ScanSorted(F, root_path, dirpath, slot,
               SortedDesc(SelectSeq(matched, LAMBDA m : SlotOf(m.filename) = slot),
                          LAMBDA m : m.size),
               unmatched_files, acc)

RECURSIVE ScanGroups(_, _, _, _, _, _, _)
\* the loop of line 266 over the groups, in the order of their first file
ScanGroups(F, root_path, dirpath, slots, matched, unmatched_files, acc) ==
    IF slots = <<>> THEN acc
    ELSE ScanGroups(F, root_path, dirpath, Tail(slots), matched, unmatched_files,
                    ScanGroup(F, root_path, dirpath, Head(slots), matched,
                              unmatched_files, acc))

\* lines 307-315: the files of the directory that are neither claimed nor
\* hidden
Artifacts(F, root_path, dirpath, left) ==
    [i \in 1..Len(left) |->
        [path |-> Join(dirpath, left[i]),
         disk |-> root_path,
         rel_dir |-> dirpath.rel,
         size |-> get_file_info(F, Join(dirpath, left[i]))]]

\* ScanLeft that also passes over the unclaimed files that match PATTERN
ScanLeft_unmatched_only(F, root_path, dirpath, filenames, done) ==
    [eps |-> done.eps,
     arts |-> Artifacts(F, root_path, dirpath,
                        SelectSeq(filenames,
                                  LAMBDA f : /\ f \notin done.claimed
                                             /\ ~StartsWith(Chars(f), <<".">>)
                                             /\ ~PatternMatches(Chars(f))))]

\* lines 306-315, after the groups of the directory have been processed
ScanLeft(F, root_path, dirpath, filenames, done) ==
    [eps |-> done.eps,
     arts |-> Artifacts(F, root_path, dirpath,
                        SelectSeq(filenames,
                                  LAMBDA f : /\ f \notin done.claimed
                                             /\ ~StartsWith(Chars(f), <<".">>)))]

\* lines 248-259: the matching files of the directory
Matched(F, dirpath, matchNames) ==
    [i \in 1..Len(matchNames) |-> MatchedFile(F, dirpath, matchNames[i])]

\* the keys of local_ep_groups, in the order of their insertion
Slots(matchNames) == Dedupe([i \in 1..Len(matchNames) |-> SlotOf(matchNames[i])])

\* lines 244-315 for the files of one directory
ScanFiles(F, root_path, dirpath, filenames) ==
    ScanLeft(F, root_path, dirpath, filenames,
             ScanGroups(F, root_path, dirpath,
                        Slots(SelectSeq(filenames,
                                        LAMBDA f : PatternMatches(Chars(f)))),
                        Matched(F, dirpath,
                                SelectSeq(filenames,
                                          LAMBDA f : PatternMatches(Chars(f)))),
                        SelectSeq(filenames, LAMBDA f : ~PatternMatches(Chars(f))),
                        [claimed |-> {}, eps |-> <<>>]))

\* lines 244-315 for one directory of the walk: the episode entries and
\* the artifacts found in it
ScanDir(F, root_path, dirpath) ==
    ScanFiles(F, root_path, dirpath, FilesIn(F, dirpath))

\* lib_entry['disks'][root_path]['total_size'] += n
AddSize(entry, root_path, n) ==
    LET i == IndexOf(entry.disks, LAMBDA d : d.disk = root_path)
    IN [entry EXCEPT !.disks[i].total_size = @ + n]

\* lib_entry['episodes'][slot].append(copy), and line 304
AddEpisode(entry, ep) ==
    LET i == IndexOf(entry.episodes, LAMBDA x : x.slot = ep.slot)
        added == IF i = 0
                 THEN [entry EXCEPT !.episodes =
                          Append(@, [slot |-> ep.slot, copies |-> <<ep.copy>>])]
                 ELSE [entry EXCEPT !.episodes[i].copies = Append(@, ep.copy)]
    IN AddSize(added, ep.copy.disk, ep.copy.total_size)

\* lib_entry['artifacts'].append(art), and line 315
AddArtifact(entry, art) ==
    AddSize([entry EXCEPT !.artifacts = Append(@, art)], art.disk, art.size)

RECURSIVE AddEpisodes(_, _)
AddEpisodes(entry, eps) ==
    IF eps = <<>> THEN entry
    ELSE AddEpisodes(AddEpisode(entry, Head(eps)), Tail(eps))

RECURSIVE AddArtifacts(_, _)
AddArtifacts(entry, arts) ==
    IF arts = <<>> THEN entry
    ELSE AddArtifacts(AddArtifact(entry, Head(arts)), Tail(arts))

RECURSIVE ScanWalk(_, _, _, _)
\* the loop of line 239 over the directories of the series folder
ScanWalk(F, root_path, dirpaths, entry) ==
    IF dirpaths = <<>> THEN entry
    ELSE LET found == ScanDir(F, root_path, Head(dirpaths))
         IN ScanWalk(F, root_path, Tail(dirpaths),
                     AddArtifacts(AddEpisodes(entry, found.eps), found.arts))

\* library[norm_key] of a defaultdict: a fresh entry when the key is new
NewEntry(norm_key) ==
    [key |-> norm_key, display_name |-> "", disks |-> <<>>,
     episodes |-> <<>>, artifacts |-> <<>>]

\* lines 233-236: the display name and the folder name on this root
Register(entry, root_path, folder_name) ==
    LET named == IF entry.display_name = ""
                 THEN [entry EXCEPT !.display_name = folder_name]
                 ELSE entry
        i == IndexOf(named.disks, LAMBDA d : d.disk = root_path)
    IN IF i = 0
       THEN [named EXCEPT !.disks =
                Append(@, [disk |-> root_path, real_folder |-> folder_name,
                           total_size |-> 0])]
       ELSE [named EXCEPT !.disks[i].real_folder = folder_name]

\* lines 225-315 for one series folder of one root
ScanFolder(F, root_path, folder_name, library) ==
    LET norm_key == normalize_name(Chars(folder_name))
        i == IndexOf(library, LAMBDA x : x.key = norm_key)
        lib_entry == IF i = 0 THEN NewEntry(norm_key) ELSE library[i]
        scanned == ScanWalk(F, root_path,
                            Walk(F, <<SeriesDir(abspath(root_path), folder_name)>>,
                                 TRUE),
                            Register(lib_entry, root_path, folder_name))
    IN IF i = 0 THEN Append(library, scanned)
       ELSE [library EXCEPT ![i] = scanned]

RECURSIVE ScanFolders(_, _, _, _)
ScanFolders(F, root_path, folders, library) ==
    IF folders = <<>> THEN library
    ELSE ScanFolders(F, root_path, Tail(folders),
                     ScanFolder(F, root_path, Head(folders), library))

\* line 220: the directories of the root, in listing order
SeriesDirs(F, root_path) ==
    SelectSeq(FOLDERS, LAMBDA f : SeriesDir(abspath(root_path), f) \in F.dirs)

RECURSIVE ScanRoots(_, _, _)
ScanRoots(F, roots, library) ==
    IF roots = <<>> THEN library
    ELSE ScanRoots(F, Tail(roots),
                   ScanFolders(F, Head(roots), SeriesDirs(F, Head(roots)), library))

scan_library(F, roots) == ScanRoots(F, roots, <<>>)

(***************************************************************************)
(* process_consolidation (src/tvconsolidator.py:319-450): the parts of the *)
(* loop body as functions of the file system and of the series' entry      *)
(***************************************************************************)
RECURSIVE InsertKey(_, _, _)
InsertKey(idxs, i, library) ==
    IF idxs = <<>> THEN <<i>>
    ELSE IF StrLess(library[i].key, library[Head(idxs)].key) THEN <<i>> \o idxs
    ELSE <<Head(idxs)>> \o InsertKey(Tail(idxs), i, library)

RECURSIVE SortKeys(_, _)
SortKeys(n, library) ==
    IF n = 0 THEN <<>> ELSE InsertKey(SortKeys(n - 1, library), n, library)

\* sorted(library.keys()), as the entries in that order (line 332)
SortedEntries(library) ==
    LET idxs == SortKeys(Len(library), library)
    IN [i \in 1..Len(library) |-> library[idxs[i]]]

\* line 341 with < for <=
OnOneDisk_strict(data) == Len(data.disks) < 1

\* line 341: the series lies on one disk only
OnOneDisk(data) == Len(data.disks) <= 1

\* line 353 with 2 for 1
SizesDiffer_three(copies) == Cardinality({c.size : c \in Range(copies)}) > 2

\* line 353: the copies of one slot do not all have the same size
SizesDiffer(copies) == Cardinality({c.size : c \in Range(copies)}) > 1

\* lines 349-355 without the comparison of the sizes
has_bad_dupe_any(data) ==
    \E i \in 1..Len(data.episodes) : Len(data.episodes[i].copies) > 1

\* lines 349-355
has_bad_dupe(data) ==
    \E i \in 1..Len(data.episodes) :
        /\ Len(data.episodes[i].copies) > 1
        /\ SizesDiffer(data.episodes[i].copies)

\* the candidates in the order of the scan, unsorted
Candidates_unsorted(data) == data.disks

\* line 366
Candidates(data) == SortedDesc(data.disks, LAMBDA d : d.total_size)

\* lines 374-384 with the size of the copy alone at line 379
BytesNeeded_copy_only(data, disk_path) ==
    SumSeq([i \in 1..Len(data.episodes) |->
              IF \E c \in Range(data.episodes[i].copies) : c.disk = disk_path
              THEN 0
              ELSE data.episodes[i].copies[1].size])
    + SumSeq([i \in 1..Len(data.artifacts) |->
                IF data.artifacts[i].disk # disk_path
                THEN data.artifacts[i].size
                ELSE 0])

\* lines 374-384
BytesNeeded(data, disk_path) ==
    SumSeq([i \in 1..Len(data.episodes) |->
              IF \E c \in Range(data.episodes[i].copies) : c.disk = disk_path
              THEN 0
              ELSE data.episodes[i].copies[1].total_size])
    + SumSeq([i \in 1..Len(data.artifacts) |->
                IF data.artifacts[i].disk # disk_path
                THEN data.artifacts[i].size
                ELSE 0])

\* line 387 with >= for >
EnoughSpace_weak(free_space, bytes_needed) ==
    (free_space - bytes_needed) >= MIN_FREE_BUFFER

\* line 387
EnoughSpace(free_space, bytes_needed) ==
    (free_space - bytes_needed) > MIN_FREE_BUFFER

\* lines 372-392: the position in Candidates of the first disk that passes
\* the free-space test, 0 when none does
SelectIndex(F, data) ==
    IndexOf(Candidates(data),
            LAMBDA d : EnoughSpace(get_free_space(F, d.disk),
                                   BytesNeeded(data, d.disk)))

RECURSIVE DeleteAll(_, _, _)
DeleteAll(R, paths, dry_run) ==
    IF paths = <<>> THEN R
    ELSE LET D == safe_delete(R, Head(paths), dry_run)
         IN DeleteAll(Result(D, R.log \o D.log, R.ok), Tail(paths), dry_run)

\* safe_delete of a copy and of its companions (lines 414-415, 427-428)
DeleteCopy(R, c, dry_run) ==
    DeleteAll(R,
              <<c.path>> \o [i \in 1..Len(c.companions) |-> c.companions[i].path],
              dry_run)

RECURSIVE DeleteCopies(_, _, _)
DeleteCopies(R, copies, dry_run) ==
    IF copies = <<>> THEN R
    ELSE DeleteCopies(DeleteCopy(R, Head(copies), dry_run), Tail(copies), dry_run)

RECURSIVE MoveCompanions(_, _, _, _)
\* lines 423-424
MoveCompanions(R, comps, dest_dir, dry_run) ==
    IF comps = <<>> THEN R
    ELSE LET M == force_move(R, Head(comps).path, dest_dir, dry_run)
         IN MoveCompanions(Result(M, R.log \o M.log, R.ok),
                           Tail(comps), dest_dir, dry_run)

\* ReconcileEpisode that deletes the copies off the target whether or not
\* the move of line 421 succeeded
ReconcileEpisode_deleting(F, ep, target_disk, target_root_full, dry_run, io) ==
    LET on_target == SelectSeq(ep.copies, LAMBDA c : c.disk = target_disk)
        others == SelectSeq(ep.copies, LAMBDA c : c.disk # target_disk)
        start == Result(F, <<>>, TRUE)
    IN IF on_target # <<>>
       THEN DeleteCopies(start, others, dry_run)
       ELSE LET src == others[1]
                dest_dir == SubDir(target_root_full, src.rel_dir)
                M == safe_move(F, src.path, dest_dir, dry_run, io)
            IN IF M.ok
               THEN DeleteCopies(
                        MoveCompanions(M, src.companions, dest_dir, dry_run),
                        Tail(others), dry_run)
               ELSE DeleteCopies(
                        Result(M, M.log \o <<Line("ABORT", "episode", ep.slot)>>,
                               FALSE),
                        others, dry_run)

\* lines 405-430 for one slot; io tells how the move of line 421 ends
ReconcileEpisode(F, ep, target_disk, target_root_full, dry_run, io) ==
    LET on_target == SelectSeq(ep.copies, LAMBDA c : c.disk = target_disk)
        others == SelectSeq(ep.copies, LAMBDA c : c.disk # target_disk)
        start == Result(F, <<>>, TRUE)
    IN IF on_target # <<>>
       THEN DeleteCopies(start, others, dry_run)
       ELSE LET src == others[1]
                dest_dir == SubDir(target_root_full, src.rel_dir)
                M == safe_move(F, src.path, dest_dir, dry_run, io)
            IN IF M.ok
               THEN DeleteCopies(
                        MoveCompanions(M, src.companions, dest_dir, dry_run),
                        Tail(others), dry_run)
               ELSE Result(M, M.log \o <<Line("ABORT", "episode", ep.slot)>>, FALSE)

\* ReconcileArtifact that transfers with safe_move
ReconcileArtifact_safe(F, art, target_disk, target_root_full, dry_run) ==
    IF art.disk # target_disk
    THEN safe_move(F, art.path, SubDir(target_root_full, art.rel_dir), dry_run,
                   "ok")
    ELSE Result(F, <<>>, TRUE)

\* lines 433-436 for one artifact
ReconcileArtifact(F, art, target_disk, target_root_full, dry_run) ==
    IF art.disk # target_disk
    THEN force_move(F, art.path, SubDir(target_root_full, art.rel_dir), dry_run)
    ELSE Result(F, <<>>, TRUE)

\* the result R of a call, after the line has been printed before the call
Printed(line, R) == Result(R, <<line>> \o R.log, R.ok)

\* lines 440-448 for one involved disk: the line "-> Cleaning source" and
\* the cleanup of the series folder of the disk
CleanSource(F, data, disk, target_disk, dry_run) ==
    IF disk.disk = target_disk THEN Result(F, <<>>, TRUE)
    ELSE Printed(Line("INFO", "cleaning", SeriesDir(disk.disk, disk.real_folder)),
                 cleanup_folder_tree(F, SeriesDir(abspath(disk.disk),
                                                  disk.real_folder),
                                     dry_run))

(***************************************************************************)
(* Bounds and inputs                                                       *)
(***************************************************************************)
\* the most files a file system of a run holds
MaxFiles == 4

\* the most files a file system holds on which a single file operation is tried
OpsMaxFiles == 2

\* the most files a file system holds at the start of a run with I/O faults
IOMaxFiles == 3

\* the most characters of a folder name given to normalize_name
MaxNameLen == 3

\* the most files a file system holds at the start of a run on any of the
\* root lists
ArgsMaxFiles == 3

\* the most files the source folder and the folder of the final movie file
\* hold together when cleanup_source_folder is called
RadarrMaxFiles == 3

\* the longest an API call of execute_blocking takes, in ticks
MaxCallTicks == 1

\* the characters of these names: a letter in both cases, the two separators
\* and the space (every white-space character is to str.strip and to \s what
\* the space is)
NameChars == {"V", "v", ".", "_", " "}

\* the folder names of at most n characters
FolderNames(n) == UNION { [1..m -> NameChars] : m \in 1..n }

\* args.paths
ROOTS == <<"A", "B">>

\* the free space a volume may have at the start
FreeVals == {MIN_FREE_BUFFER + 1, MIN_FREE_BUFFER + 9}

\* the same for the runs with I/O faults: room for nothing, or for two episodes
IOFreeVals == {MIN_FREE_BUFFER + 1, MIN_FREE_BUFFER + 13}

\* the spelling of the two series' folders on each root
Folder1(root) == IF root = "A" THEN FOLDERS[1] ELSE FOLDERS[2]

Folder2(root) == FOLDERS[3]

\* the files a root may hold, each with the sizes it may have
RootUniverse(root) ==
    LET top1 == SeriesDir(root, Folder1(root))
        top2 == SeriesDir(root, Folder2(root))
    IN << [path |-> Join(top1, NAMES[1]), sizes |-> {1, 6, 7}],
          [path |-> Join(top1, NAMES[2]), sizes |-> {1}],
          [path |-> Join(top1, NAMES[3]), sizes |-> {1}],
          [path |-> Join(SubDir(top1, <<DIRNAMES[1]>>), NAMES[1]), sizes |-> {7}],
          [path |-> Join(top2, NAMES[1]), sizes |-> {6}],
          [path |-> Join(top2, NAMES[4]),
           sizes |-> IF root = ROOTS[2] THEN {1, 2} ELSE {1}] >>

Universe == RootUniverse("A") \o RootUniverse("B")

PathUniverse == {Universe[i].path : i \in 1..Len(Universe)}

DirUniverse == {DirOf(p) : p \in PathUniverse}

\* the file maps over the files of the universe U that hold at most max files
SnapshotsOf(U, max) ==
    UNION { { f \in [{U[i].path : i \in S} -> UNION {U[i].sizes : i \in S}] :
                \A i \in S : f[U[i].path] \in U[i].sizes } :
            S \in {T \in SUBSET DOMAIN U : Cardinality(T) <= max} }

Snapshots(max) == SnapshotsOf(Universe, max)

\* the files a root may hold in the runs with I/O faults: the first episode
\* file may be unreadable, the file listed after it for the same slot may be
\* the larger one, the first series may have a second episode, and on the
\* second root a second copy of the first episode in a subdirectory
IORootUniverse(root) ==
    LET top1 == SeriesDir(root, Folder1(root))
        top2 == SeriesDir(root, Folder2(root))
    IN << [path |-> Join(top1, NAMES[1]), sizes |-> {UNREADABLE, 1, 6, 7}],
          [path |-> Join(top1, NAMES[2]), sizes |-> {1, 6}],
          [path |-> Join(top1, NAMES[3]), sizes |-> {1}],
          [path |-> Join(top1, NAMES[5]), sizes |-> {6}],
          [path |-> Join(top2, NAMES[1]), sizes |-> {6}] >>
       \o (IF root = ROOTS[2]
           THEN << [path |-> Join(SubDir(top1, <<DIRNAMES[1]>>), NAMES[1]),
                    sizes |-> {6}] >>
           ELSE << >>)

IOUniverse == IORootUniverse("A") \o IORootUniverse("B")

\* the root lists given on the command line: two roots, one root given
\* twice, one root given in two spellings, and the two spellings together
\* with a second root
RootLists ==
    { <<"A", "B">>, <<"A", "A">>, <<"A", "A/">>, <<"A", "A/", "B">> }

\* the files of the runs on these root lists: the first root holds the
\* series in folders of two spellings, with a hidden file that is not junk
ArgsUniverse ==
    << [path |-> Join(SeriesDir("A", FOLDERS[1]), NAMES[1]), sizes |-> {6, 7}],
       [path |-> Join(SeriesDir("A", FOLDERS[1]), NAMES[6]), sizes |-> {1}],
       [path |-> Join(SeriesDir("A", FOLDERS[1]), NAMES[4]), sizes |-> {1}],
       [path |-> Join(SeriesDir("A", FOLDERS[2]), NAMES[5]), sizes |-> {6}],
       [path |-> Join(SeriesDir("B", FOLDERS[2]), NAMES[1]), sizes |-> {6}],
       [path |-> Join(SeriesDir("B", FOLDERS[2]), NAMES[4]), sizes |-> {1}] >>

\* the directories that hold the files of f
DirsOf(f) == UNION {Ancestors(DirOf(p)) : p \in DOMAIN f}

(***************************************************************************)
(* State                                                                   *)
(***************************************************************************)
VARIABLES
    fs,            \* file path -> size
    dirs,          \* the directories below the roots
    free,          \* root -> free bytes of its volume
    execute,       \* args.execute
    library,       \* the result of scan_library
    pc,            \* where the run stands
    si,            \* the position of the current series in sorted(library.keys())
    k,             \* the position in the current loop of the series
    target_disk,
    target_series_folder_name,
    plan_import_size,
    skipped_log,
    log,           \* the lines printed so far, each with its series: the
                   \* action lines and, with the tag INFO, the lines
                   \* "-> Consolidating to" and "-> Cleaning source"
    outcome,       \* what became of each series processed so far
    dryrun,        \* outcome, log and skipped_log of the finished dry run
    snap,          \* the file system when the first run started
    faulty,        \* whether file operations may raise I/O errors
    roots,         \* args.paths
    op             \* the file operation tried last (single operations only)

vars == <<fs, dirs, free, execute, library, pc, si, k, target_disk,
          target_series_folder_name, plan_import_size, skipped_log, log,
          outcome, dryrun, snap, faulty, roots, op>>

\* how a file operation may end in this run
IOOutcomes == IF faulty THEN {"ok"} \cup IO_ERRORS ELSE {"ok"}

\* the file system as the record the operations take
FS == [fs |-> fs, dirs |-> dirs, free |-> free]

NoOp == [name |-> "none"]

NoRun == [done |-> FALSE]

\* the entry of the series the loop of line 332 is at
Data == SortedEntries(library)[si]

Tagged(lines) ==
    [i \in 1..Len(lines) |->
        [series |-> Data.key, tag |-> lines[i].tag, op |-> lines[i].op,
         path |-> lines[i].path]]

\* the tool is started without --execute
Init ==
    /\ fs \in Snapshots(MaxFiles)
    /\ dirs = DirsOf(fs)
    /\ free \in [Range(ROOTS) -> FreeVals]
    /\ execute = FALSE
    /\ library = <<>>
    /\ pc = "scan"
    /\ si = 0
    /\ k = 0
    /\ target_disk = ""
    /\ target_series_folder_name = ""
    /\ plan_import_size = 0
    /\ skipped_log = <<>>
    /\ log = <<>>
    /\ outcome = <<>>
    /\ dryrun = NoRun
    /\ snap = [fs |-> fs, dirs |-> dirs, free |-> free]
    /\ faulty = FALSE
    /\ roots = ROOTS
    /\ op = NoOp

(***************************************************************************)
(* main and process_consolidation, step by step                            *)
(***************************************************************************)
\* line 458
Scan ==
    /\ pc = "scan"
    /\ library' = scan_library(FS, roots)
    /\ pc' = "series"
    /\ si' = 1
    /\ UNCHANGED <<fs, dirs, free, execute, k, target_disk,
                   target_series_folder_name, plan_import_size, skipped_log,
                   log, outcome, dryrun, snap, faulty, roots, op>>

AtSeries == pc = "series" /\ si <= Len(library)

\* the loop of line 332 goes on to the next key
NextKey(result, skipped) ==
    /\ si' = si + 1
    /\ pc' = "series"
    /\ k' = 0
    /\ target_disk' = ""
    /\ target_series_folder_name' = ""
    /\ plan_import_size' = 0
    /\ skipped_log' = skipped_log \o skipped
    /\ outcome' = Append(outcome,
                         [key |-> Data.key, result |-> result,
                          target |-> target_disk,
                          folder |-> target_series_folder_name,
                          need |-> plan_import_size])

\* lines 341-342
SkipOneDisk ==
    /\ AtSeries
    /\ OnOneDisk(Data)
    /\ NextKey("one disk", <<>>)
    /\ UNCHANGED <<fs, dirs, free, execute, library, log, dryrun, snap, faulty,
                   roots, op>>

\* lines 346-361
SkipConflict ==
    /\ AtSeries
    /\ ~OnOneDisk(Data)
    /\ has_bad_dupe(Data)
    /\ NextKey("conflict",
               <<[name |-> Data.display_name, reason |-> "Conflicting duplicates"]>>)
    /\ UNCHANGED <<fs, dirs, free, execute, library, log, dryrun, snap, faulty,
                   roots, op>>

\* lines 363-398, no candidate passes
SkipNoSpace ==
    /\ AtSeries
    /\ ~OnOneDisk(Data)
    /\ ~has_bad_dupe(Data)
    /\ SelectIndex(FS, Data) = 0
    /\ NextKey("no space",
               <<[name |-> Data.display_name, reason |-> "No candidate disk"]>>)
    /\ UNCHANGED <<fs, dirs, free, execute, library, log, dryrun, snap, faulty,
                   roots, op>>

\* SelectTarget on the free space the volumes had when the run started
SelectTarget_stale ==
    /\ AtSeries
    /\ ~OnOneDisk(Data)
    /\ ~has_bad_dupe(Data)
    /\ SelectIndex(snap, Data) # 0
    /\ LET chosen == Candidates(Data)[SelectIndex(snap, Data)]
       IN /\ target_disk' = chosen.disk
          /\ target_series_folder_name' = chosen.real_folder
          /\ plan_import_size' = BytesNeeded(Data, chosen.disk)
          /\ log' = log \o Tagged(<<Line("INFO", "target",
                                          SeriesDir(chosen.disk,
                                                    chosen.real_folder))>>)
    /\ pc' = "episodes"
    /\ k' = 1
    /\ UNCHANGED <<fs, dirs, free, execute, library, si, skipped_log,
                   outcome, dryrun, snap, faulty, roots, op>>

\* lines 363-402, a candidate passes; line 401 prints "-> Consolidating to"
SelectTarget ==
    /\ AtSeries
    /\ ~OnOneDisk(Data)
    /\ ~has_bad_dupe(Data)
    /\ SelectIndex(FS, Data) # 0
    /\ LET chosen == Candidates(Data)[SelectIndex(FS, Data)]
       IN /\ target_disk' = chosen.disk
          /\ target_series_folder_name' = chosen.real_folder
          /\ plan_import_size' = BytesNeeded(Data, chosen.disk)
          /\ log' = log \o Tagged(<<Line("INFO", "target",
                                          SeriesDir(chosen.disk,
                                                    chosen.real_folder))>>)
    /\ pc' = "episodes"
    /\ k' = 1
    /\ UNCHANGED <<fs, dirs, free, execute, library, si, skipped_log,
                   outcome, dryrun, snap, faulty, roots, op>>

\* the target folder under the display name of the series
target_root_full_display == SeriesDir(target_disk, Data.display_name)

\* line 402
target_root_full == SeriesDir(abspath(target_disk), target_series_folder_name)

Apply(R) ==
    /\ fs' = R.fs
    /\ dirs' = R.dirs
    /\ free' = R.free
    /\ log' = log \o Tagged(R.log)

\* lines 405-430, one slot
Episode ==
    /\ pc = "episodes"
    /\ k <= Len(Data.episodes)
    /\ \E io \in IOOutcomes :
          Apply(ReconcileEpisode(FS, Data.episodes[k], target_disk,
                                 target_root_full, ~execute, io))
    /\ k' = k + 1
    /\ UNCHANGED <<execute, library, pc, si, target_disk,
                   target_series_folder_name, plan_import_size, skipped_log,
                   outcome, dryrun, snap, faulty, roots, op>>

\* the loop of line 405 is over
EpisodesDone ==
    /\ pc = "episodes"
    /\ k > Len(Data.episodes)
    /\ pc' = "artifacts"
    /\ k' = 1
    /\ UNCHANGED <<fs, dirs, free, execute, library, si, target_disk,
                   target_series_folder_name, plan_import_size, skipped_log,
                   log, outcome, dryrun, snap, faulty, roots, op>>

\* lines 433-436, one artifact
Artifact ==
    /\ pc = "artifacts"
    /\ k <= Len(Data.artifacts)
    /\ Apply(ReconcileArtifact(FS, Data.artifacts[k], target_disk,
                               target_root_full, ~execute))
    /\ k' = k + 1
    /\ UNCHANGED <<execute, library, pc, si, target_disk,
                   target_series_folder_name, plan_import_size, skipped_log,
                   outcome, dryrun, snap, faulty, roots, op>>

\* the loop of line 433 is over
ArtifactsDone ==
    /\ pc = "artifacts"
    /\ k > Len(Data.artifacts)
    /\ pc' = "cleanup"
    /\ k' = 1
    /\ UNCHANGED <<fs, dirs, free, execute, library, si, target_disk,
                   target_series_folder_name, plan_import_size, skipped_log,
                   log, outcome, dryrun, snap, faulty, roots, op>>

\* Cleanup that leaves the roots alone once a move of the series has failed
Cleanup_unless_failed ==
    /\ pc = "cleanup"
    /\ k <= Len(Data.disks)
    /\ IF \E n \in 1..Len(log) : log[n].series = Data.key /\ log[n].op = "episode"
       THEN UNCHANGED <<fs, dirs, free, log>>
       ELSE Apply(CleanSource(FS, Data, Data.disks[k], target_disk, ~execute))
    /\ k' = k + 1
    /\ UNCHANGED <<execute, library, pc, si, target_disk,
                   target_series_folder_name, plan_import_size, skipped_log,
                   outcome, dryrun, snap, faulty, roots, op>>

\* lines 440-448, one involved disk
Cleanup ==
    /\ pc = "cleanup"
    /\ k <= Len(Data.disks)
    /\ Apply(CleanSource(FS, Data, Data.disks[k], target_disk, ~execute))
    /\ k' = k + 1
    /\ UNCHANGED <<execute, library, pc, si, target_disk,
                   target_series_folder_name, plan_import_size, skipped_log,
                   outcome, dryrun, snap, faulty, roots, op>>

\* the loop of line 440 is over: the series is done
SeriesDone ==
    /\ pc = "cleanup"
    /\ k > Len(Data.disks)
    /\ NextKey("consolidated", <<>>)
    /\ UNCHANGED <<fs, dirs, free, execute, library, log, dryrun, snap, faulty,
                   roots, op>>

\* line 450: every key has been processed
Return ==
    /\ pc = "series"
    /\ si > Len(library)
    /\ pc' = "done"
    /\ UNCHANGED <<fs, dirs, free, execute, library, si, k, target_disk,
                   target_series_folder_name, plan_import_size, skipped_log,
                   log, outcome, dryrun, snap, faulty, roots, op>>

\* the tool is started again on the same roots, now with --execute
Execute ==
    /\ pc = "done"
    /\ ~execute
    /\ execute' = TRUE
    /\ dryrun' = [done |-> TRUE, outcome |-> outcome, log |-> log,
                  skipped_log |-> skipped_log]
    /\ library' = <<>>
    /\ pc' = "scan"
    /\ si' = 0
    /\ skipped_log' = <<>>
    /\ log' = <<>>
    /\ outcome' = <<>>
    /\ UNCHANGED <<fs, dirs, free, k, target_disk, target_series_folder_name,
                   plan_import_size, snap, faulty, roots, op>>

Next ==
    \/ Scan
    \/ SkipOneDisk
    \/ SkipConflict
    \/ SkipNoSpace
    \/ SelectTarget
    \/ Episode
    \/ EpisodesDone
    \/ Artifact
    \/ ArtifactsDone
    \/ Cleanup
    \/ SeriesDone
    \/ Return
    \/ Execute

Spec == Init /\ [][Next]_vars

(***************************************************************************)
(* The same runs in an environment with I/O faults: files that os.stat     *)
(* cannot read, and moves of an episode file that raise                    *)
(***************************************************************************)
InitIO ==
    /\ fs \in SnapshotsOf(IOUniverse, IOMaxFiles)
    /\ dirs = DirsOf(fs)
    /\ free \in [Range(ROOTS) -> IOFreeVals]
    /\ execute = FALSE
    /\ library = <<>>
    /\ pc = "scan"
    /\ si = 0
    /\ k = 0
    /\ target_disk = ""
    /\ target_series_folder_name = ""
    /\ plan_import_size = 0
    /\ skipped_log = <<>>
    /\ log = <<>>
    /\ outcome = <<>>
    /\ dryrun = NoRun
    /\ snap = [fs |-> fs, dirs |-> dirs, free |-> free]
    /\ faulty = TRUE
    /\ roots = ROOTS
    /\ op = NoOp

SpecIO == InitIO /\ [][Next]_vars

(***************************************************************************)
(* The runs on any of the root lists, which an interrupt may end           *)
(***************************************************************************)
InitArgs ==
    /\ fs \in SnapshotsOf(ArgsUniverse, ArgsMaxFiles)
    /\ dirs = DirsOf(fs)
    /\ free \in [Range(ROOTS) -> FreeVals]
    /\ execute = FALSE
    /\ library = <<>>
    /\ pc = "scan"
    /\ si = 0
    /\ k = 0
    /\ target_disk = ""
    /\ target_series_folder_name = ""
    /\ plan_import_size = 0
    /\ skipped_log = <<>>
    /\ log = <<>>
    /\ outcome = <<>>
    /\ dryrun = NoRun
    /\ snap = [fs |-> fs, dirs |-> dirs, free |-> free]
    /\ faulty = FALSE
    /\ roots \in RootLists
    /\ op = NoOp

\* Ctrl-C while main runs: KeyboardInterrupt is raised in the main thread.
\* No except clause of the program catches it (lines 105, 131 and 145 catch
\* Exception, lines 71, 78, 178 and 221 OSError) and main installs no
\* handler, so the process ends where it stands
Interrupt ==
    /\ pc \in {"scan", "series", "episodes", "artifacts", "cleanup"}
    /\ pc' = "interrupted"
    /\ UNCHANGED <<fs, dirs, free, execute, library, si, k, target_disk,
                   target_series_folder_name, plan_import_size, skipped_log,
                   log, outcome, dryrun, snap, faulty, roots, op>>

NextArgs == Next \/ Interrupt

SpecArgs == InitArgs /\ [][NextArgs]_vars

(***************************************************************************)
(* The file operations tried one at a time, on any file and any directory  *)
(***************************************************************************)
InitOps ==
    /\ fs \in Snapshots(OpsMaxFiles)
    /\ dirs = DirsOf(fs)
    /\ free = [r \in Range(ROOTS) |-> MIN_FREE_BUFFER + 9]
    /\ execute \in BOOLEAN
    /\ library = <<>>
    /\ pc = "op"
    /\ si = 0
    /\ k = 0
    /\ target_disk = ""
    /\ target_series_folder_name = ""
    /\ plan_import_size = 0
    /\ skipped_log = <<>>
    /\ log = <<>>
    /\ outcome = <<>>
    /\ dryrun = NoRun
    /\ snap = [fs |-> fs, dirs |-> dirs, free |-> free]
    /\ faulty \in BOOLEAN
    /\ roots = ROOTS
    /\ op = NoOp

Tried(name, src, dest_dir, R) ==
    /\ pc = "op"
    /\ pc' = "tried"
    /\ fs' = R.fs
    /\ dirs' = R.dirs
    /\ free' = R.free
    /\ log' = R.log
    /\ op' = [name |-> name, src |-> src, dest_dir |-> dest_dir,
              dry_run |-> ~execute, ok |-> R.ok]
    /\ UNCHANGED <<execute, library, si, k, target_disk,
                   target_series_folder_name, plan_import_size, skipped_log,
                   outcome, dryrun, snap, faulty, roots>>

TrySafeMove ==
    \E src \in PathUniverse, dest_dir \in DirUniverse, io \in IOOutcomes :
        Tried("safe_move", src, dest_dir,
              safe_move(FS, src, dest_dir, ~execute, io))

TryForceMove ==
    \E src \in PathUniverse, dest_dir \in DirUniverse :
        Tried("force_move", src, dest_dir, force_move(FS, src, dest_dir, ~execute))

TrySafeDelete ==
    \E src \in PathUniverse :
        Tried("safe_delete", src, DirOf(src), safe_delete(FS, src, ~execute))

TryCleanup ==
    \E path \in DirUniverse :
        Tried("cleanup_folder_tree", path, path,
              cleanup_folder_tree(FS, path, ~execute))

NextOps ==
    \/ TrySafeMove
    \/ TryForceMove
    \/ TrySafeDelete
    \/ TryCleanup

SpecOps == InitOps /\ [][NextOps]_vars

(***************************************************************************)
(* normalize_name applied to a folder name and to a second spelling of it  *)
(***************************************************************************)
\* the spellings of the name x that differ from it in one place: the case of
\* one letter, '.' or '_' for one space or a space for one of them, a space
\* before or after the name
Respellings(x) ==
    { [x EXCEPT ![i] = IF @ = "V" THEN "v" ELSE "V"] :
          i \in {h \in 1..Len(x) : x[h] \in {"V", "v"}} }
    \cup { [x EXCEPT ![i] = c] :
              i \in {h \in 1..Len(x) : x[h] \in {" ", ".", "_"}},
              c \in {" ", ".", "_"} }
    \cup { <<" ">> \o x, x \o <<" ">> }

InitNames ==
    /\ fs = <<>>
    /\ dirs = {}
    /\ free = [r \in Range(ROOTS) |-> MIN_FREE_BUFFER + 9]
    /\ execute = FALSE
    /\ library = <<>>
    /\ pc = "name"
    /\ si = 0
    /\ k = 0
    /\ target_disk = ""
    /\ target_series_folder_name = ""
    /\ plan_import_size = 0
    /\ skipped_log = <<>>
    /\ log = <<>>
    /\ outcome = <<>>
    /\ dryrun = NoRun
    /\ snap = [fs |-> fs, dirs |-> dirs, free |-> free]
    /\ faulty = FALSE
    /\ roots = ROOTS
    /\ \E x \in FolderNames(MaxNameLen) :
          \E y \in Respellings(x) :
              op = [name |-> "names", x |-> x, y |-> y]

\* normalize_name is called on both spellings, and on the key of the first
Normalize ==
    /\ pc = "name"
    /\ pc' = "normalized"
    /\ op' = [name |-> "normalize_name", x |-> op.x, y |-> op.y,
              key_x |-> normalize_name(op.x),
              key_y |-> normalize_name(op.y),
              key_key_x |-> normalize_name(normalize_name(op.x))]
    /\ UNCHANGED <<fs, dirs, free, execute, library, si, k, target_disk,
                   target_series_folder_name, plan_import_size, skipped_log,
                   log, outcome, dryrun, snap, faulty, roots>>

NextNames == Normalize

SpecNames == InitNames /\ [][NextNames]_vars

(***************************************************************************)
(* Radarr Organizer (src/radarr-proper-import.py): cleanup_source_folder   *)
(*                                                                         *)
(* A path of this tool is the sequence of its components, "" first for    *)
(* the root directory and "" last for a trailing slash.  Sizes are bytes. *)
(* fs maps the file paths to their sizes, dirs holds the directories, op   *)
(* holds the arguments of the call, the files whose first 500 bytes hold   *)
(* '<?xml' or '<movie>', the listing of line 259 and the os and shutil     *)
(* calls made so far.                                                      *)
(***************************************************************************)
SEARCH_PATHS ==
    << <<"", "mnt", "hdd1", "Movies", "">>,
       <<"", "mnt", "hdd2", "Movies", "">>,
       <<"", "mnt", "hdd3", "Movies", "">> >>

SAFE_SIZE_LIMIT_MB == 100

VIDEO_EXTS ==
    << <<".", "m", "k", "v">>, <<".", "m", "p", "4">>, <<".", "a", "v", "i">>,
       <<".", "m", "4", "v">>, <<".", "i", "s", "o">>, <<".", "t", "s">> >>

JUNK_EXTS ==
    << <<".", "t", "x", "t">>, <<".", "e", "x", "e">>, <<".", "b", "a", "t">>,
       <<".", "u", "r", "l">>, <<".", "l", "n", "k">>, <<".", "j", "p", "g">>,
       <<".", "p", "n", "g">>, <<".", "j", "p", "e", "g">>,
       <<".", "n", "z", "b">> >>

\* str.endswith(suffixes) for a tuple of suffixes
EndsWith(s, suffixes) ==
    \E i \in 1..Len(suffixes) :
        /\ Len(suffixes[i]) <= Len(s)
        /\ SubSeq(s, Len(s) - Len(suffixes[i]) + 1, Len(s)) = suffixes[i]

\* sub in s, for strings
Contains(s, sub) ==
    \E i \in 0..(Len(s) - Len(sub)) : SubSeq(s, i + 1, i + Len(sub)) = sub

\* the name whose characters are s
NameOf(s) == CHOOSE n \in DOMAIN Spelling : Spelling[n] = s

\* os.path.normpath(path): a trailing slash is dropped
normpath(path) == <<Head(path)>> \o SelectSeq(Tail(path), LAMBDA c : c # "")

\* os.path.join(dir, name) and os.path.dirname(path)
PathJoin(dir, name) == normpath(dir) \o <<name>>

dirname(path) == SubSeq(path, 1, Len(path) - 1)

\* os.path.splitext(name)[0]: the name up to its last dot, a dot that only
\* dots precede being no extension
splitext(s) ==
    LET dots == {i \in 1..Len(s) : s[i] = "." /\ \E h \in 1..(i - 1) : s[h] # "."}
    IN  IF dots = {} THEN s
        ELSE SubSeq(s, 1, (CHOOSE i \in dots : \A h \in dots : h <= i) - 1)

\* os.listdir(path): the files and the directories in it, in listing order
RADARR_NAMES ==
    <<"Sample.TS", "x.nfo", "s.nfo", "x.TXT", "sample.srt", "x.srt", "Subs",
      "X.nfo-orig">>

listdir(F, path) ==
    SelectSeq(RADARR_NAMES,
              LAMBDA n : \/ PathJoin(path, n) \in DOMAIN F.fs
                         \/ PathJoin(path, n) \in F.dirs)

\* how the file operations of one pass of the loop may end: the read of
\* is_xml_nfo fails ("unread"), os.remove or shutil.move raises before it
\* changed anything ("error"), shutil.move raises after it copied the file
\* to another volume ("copied")
RadarrOutcomes == IF faulty THEN {"ok", "unread", "error", "copied"} ELSE {"ok"}

\* lines 225-237
is_xml_nfo(xml, path, io) == io # "unread" /\ path \in xml

Call(name, path, io) == [call |-> name, path |-> path, io |-> io]

\* os.remove(path); raised tells whether the exception reaches line 320
remove(F, path, io) ==
    [fs |-> IF io = "error" THEN F.fs
            ELSE [p \in DOMAIN F.fs \ {path} |-> F.fs[p]],
     calls |-> <<Call("remove", path, io)>>,
     raised |-> io = "error"]

\* lines 293-296: shutil.move(src, dst) inside try/except: pass
move(F, src, dst, io) ==
    [fs |-> CASE io = "error" -> F.fs
              [] io = "copied" -> (dst :> F.fs[src]) @@ F.fs
              [] OTHER -> (dst :> F.fs[src])
                          @@ [p \in DOMAIN F.fs \ {src} |-> F.fs[p]],
     calls |-> <<Call("move", src, io)>>,
     raised |-> FALSE]

Kept(F) == [fs |-> F.fs, calls |-> <<>>, raised |-> FALSE]

\* lines 284-301: a file whose lower-cased name ends with .nfo
cleanup_nfo(F, full_path, new_nfo_path, xml, io) ==
    IF is_xml_nfo(xml, full_path, io)
    THEN remove(F, full_path, io)
    ELSE IF new_nfo_path \notin DOMAIN F.fs /\ new_nfo_path \notin F.dirs
         THEN move(F, full_path, new_nfo_path, io)
         ELSE IF full_path # new_nfo_path
              THEN remove(F, full_path, io)
              ELSE Kept(F)

\* the loop without the test of line 278
cleanup_entry_novideo(F, full_path, lower_f, new_nfo_path, xml, io) ==
    IF full_path \in F.dirs THEN Kept(F)
    ELSE IF F.fs[full_path] = UNREADABLE THEN Kept(F)
    ELSE IF F.fs[full_path] > SAFE_SIZE_LIMIT_MB * (1024 * 1024) THEN Kept(F)
    ELSE IF EndsWith(lower_f, <<Chars(".nfo")>>)
         THEN cleanup_nfo(F, full_path, new_nfo_path, xml, io)
    ELSE IF EndsWith(lower_f, JUNK_EXTS) THEN remove(F, full_path, io)
    ELSE IF Contains(lower_f, Chars("sample")) THEN remove(F, full_path, io)
    ELSE Kept(F)

\* the loop without the tests of lines 270-275
cleanup_entry_nosize(F, full_path, lower_f, new_nfo_path, xml, io) ==
    IF full_path \in F.dirs THEN Kept(F)
    ELSE IF EndsWith(lower_f, VIDEO_EXTS) THEN Kept(F)
    ELSE IF EndsWith(lower_f, <<Chars(".nfo")>>)
         THEN cleanup_nfo(F, full_path, new_nfo_path, xml, io)
    ELSE IF EndsWith(lower_f, JUNK_EXTS) THEN remove(F, full_path, io)
    ELSE IF Contains(lower_f, Chars("sample")) THEN remove(F, full_path, io)
    ELSE Kept(F)

\* lines 262-312: one pass of the loop, for the entry f of the listing
cleanup_entry(F, full_path, lower_f, new_nfo_path, xml, io) ==
    IF full_path \in F.dirs THEN Kept(F)
    ELSE IF F.fs[full_path] = UNREADABLE THEN Kept(F)
    ELSE IF F.fs[full_path] > SAFE_SIZE_LIMIT_MB * (1024 * 1024) THEN Kept(F)
    ELSE IF EndsWith(lower_f, VIDEO_EXTS) THEN Kept(F)
    ELSE IF EndsWith(lower_f, <<Chars(".nfo")>>)
         THEN cleanup_nfo(F, full_path, new_nfo_path, xml, io)
    ELSE IF EndsWith(lower_f, JUNK_EXTS) THEN remove(F, full_path, io)
    ELSE IF Contains(lower_f, Chars("sample")) THEN remove(F, full_path, io)
    ELSE Kept(F)

\* lines 255-256 and 290-291
NewNfoPath(final_movie_path) ==
    PathJoin(dirname(final_movie_path),
             NameOf(splitext(Chars(final_movie_path[Len(final_movie_path)]))
                    \o Chars(".nfo-orig")))

\* lines 244-259: the source is missing or is one of the search paths, or
\* its entries are listed
CleanupEnter ==
    /\ pc = "cleanup_source_folder"
    /\ IF \/ normpath(op.source_path) \notin dirs
          \/ \E i \in 1..Len(SEARCH_PATHS) :
                normpath(op.source_path) = normpath(SEARCH_PATHS[i])
       THEN /\ pc' = "returned"
            /\ UNCHANGED <<k, op>>
       ELSE /\ pc' = "files"
            /\ k' = 1
            /\ op' = [op EXCEPT !.files = listdir(FS, op.source_path)]
    /\ UNCHANGED <<fs, dirs, free, execute, library, si, target_disk,
                   target_series_folder_name, plan_import_size, skipped_log,
                   log, outcome, dryrun, snap, faulty, roots>>

\* lines 261-312, and 320-321 when os.remove raises
CleanupFile ==
    /\ pc = "files"
    /\ k <= Len(op.files)
    /\ \E io \in RadarrOutcomes :
          LET r == cleanup_entry(FS, PathJoin(op.source_path, op.files[k]),
                                 Lower(Chars(op.files[k])),
                                 NewNfoPath(op.final_movie_path), op.xml, io)
          IN  /\ fs' = r.fs
              /\ op' = [op EXCEPT !.calls = @ \o r.calls]
              /\ pc' = IF r.raised THEN "returned" ELSE "files"
    /\ k' = k + 1
    /\ UNCHANGED <<dirs, free, execute, library, si, target_disk,
                   target_series_folder_name, plan_import_size, skipped_log,
                   log, outcome, dryrun, snap, faulty, roots>>

\* lines 316-318: the source folder is removed if nothing is left in it
CleanupRmdir ==
    /\ pc = "files"
    /\ k > Len(op.files)
    /\ pc' = "returned"
    /\ IF listdir(FS, op.source_path) = <<>>
       THEN \E io \in RadarrOutcomes \ {"unread", "copied"} :
               /\ dirs' = IF io = "ok" THEN dirs \ {normpath(op.source_path)}
                          ELSE dirs
               /\ op' = [op EXCEPT !.calls =
                            @ \o <<Call("rmdir", normpath(op.source_path), io)>>]
       ELSE UNCHANGED <<dirs, op>>
    /\ UNCHANGED <<fs, free, execute, library, si, k, target_disk,
                   target_series_folder_name, plan_import_size, skipped_log,
                   log, outcome, dryrun, snap, faulty, roots>>

NextRadarr ==
    \/ CleanupEnter
    \/ CleanupFile
    \/ CleanupRmdir

\* the folder a movie was found in, and the folder Radarr moved it to
MovieFolder == <<"", "mnt", "hdd1", "Movies", "X">>

FinalMoviePath == <<"", "mnt", "hdd2", "Movies", "X (2000)", "X.mkv">>

RadarrBig == SAFE_SIZE_LIMIT_MB * (1024 * 1024) + 1

\* the files the source folder may hold, and beside the final movie file an
\* .nfo-orig of an earlier pass
RadarrUniverse(source_path) ==
    << [path |-> PathJoin(source_path, "Sample.TS"), sizes |-> {1, RadarrBig}],
       [path |-> PathJoin(source_path, "x.nfo"), sizes |-> {1, RadarrBig}],
       [path |-> PathJoin(source_path, "s.nfo"), sizes |-> {2}],
       [path |-> PathJoin(source_path, "x.TXT"),
        sizes |-> {1, RadarrBig - 1, RadarrBig, UNREADABLE}],
       [path |-> PathJoin(source_path, "sample.srt"), sizes |-> {1}],
       [path |-> PathJoin(source_path, "x.srt"), sizes |-> {1}],
       [path |-> NewNfoPath(FinalMoviePath), sizes |-> {3}] >>

\* one call cleanup_source_folder(source_path, final_movie_path): the source
\* is the folder of the movie, a search path itself or a folder that is gone
InitRadarr ==
    /\ \E source_path \in {MovieFolder, SEARCH_PATHS[1]}, gone, subs \in BOOLEAN :
          /\ fs \in SnapshotsOf(RadarrUniverse(source_path), RadarrMaxFiles)
          /\ \E xml \in SUBSET {PathJoin(source_path, "x.nfo")} :
                op = [name |-> "cleanup_source_folder",
                      source_path |-> IF gone THEN PathJoin(source_path, "Subs")
                                      ELSE source_path,
                      final_movie_path |-> FinalMoviePath,
                      xml |-> xml, files |-> <<>>, calls |-> <<>>]
          /\ dirs = {normpath(source_path), dirname(FinalMoviePath)}
                    \cup IF subs /\ ~gone
                         THEN {PathJoin(source_path, "Subs")} ELSE {}
    /\ faulty \in BOOLEAN
    /\ free = [r \in Range(ROOTS) |-> MIN_FREE_BUFFER + 9]
    /\ snap = [fs |-> fs, dirs |-> dirs, free |-> free]
    /\ execute = TRUE
    /\ library = <<>>
    /\ pc = "cleanup_source_folder"
    /\ si = 0
    /\ k = 0
    /\ target_disk = ""
    /\ target_series_folder_name = ""
    /\ plan_import_size = 0
    /\ skipped_log = <<>>
    /\ log = <<>>
    /\ outcome = <<>>
    /\ dryrun = NoRun
    /\ roots = ROOTS

SpecRadarr == InitRadarr /\ [][NextRadarr]_vars

(***************************************************************************)
(* Radarr Organizer (src/radarr-proper-import.py): execute_blocking        *)
(*                                                                         *)
(* One call execute_blocking(task_name, func, ...).  Time is counted in    *)
(* ticks of half a second, the shorter of the two sleeps.  op holds the    *)
(* clock time.time() (now), start_time, the answer of the triggering call, *)
(* the answer of the last poll, the value returned and the line printed.   *)
(* An API call takes up to MaxCallTicks ticks; a sleep takes its ticks.    *)
(***************************************************************************)
\* ticks of the clock in a second: time.sleep(0.5) is one tick
TICKS_PER_SECOND == 2

\* line 125, in seconds
timeout == 180

\* the sleeps of lines 147 and 158, in ticks
POLL_SLEEP == 1

ERROR_SLEEP == 2

\* what func returns (api_post, api_put: lines 85-103): ok, and a response
\* that is a dict with an 'id', a dict without one, or no dict (a list, the
\* text of an exception)
TriggerAnswers == [ok : BOOLEAN, res : {"id", "dict", "other"}]

\* the 'status' of a command resource; NoStatus: the key is missing
STATUSES == {"completed", "Completed", "failed", "Failed", "queued", "started"}

NoStatus == "unknown"

NoAnswer == [kind |-> "none", status |-> "", status_code |-> 0]

\* how api_get(f"/command/{command_id}", raise_errors=True) ends (lines
\* 73-83): with the decoded body, with the HTTPError of raise_for_status, or
\* with another exception (no connection, a body that is no JSON); a body
\* that is no dict makes line 137 raise AttributeError, another exception
PollAnswers ==
    {[kind |-> "dict", status |-> s, status_code |-> 200] :
        s \in STATUSES \cup {NoStatus}}
    \cup {[kind |-> "HTTPError", status |-> "", status_code |-> c] :
             c \in {404, 500}}
    \cup {[kind |-> "Exception", status |-> "", status_code |-> 0]}

PollEnd(ret, printed, sleep) == [ret |-> ret, printed |-> printed, sleep |-> sleep]

\* the poll that takes every state but 'failed' for the end of the command
poll_trusting(answer) ==
    IF answer.kind = "HTTPError"
    THEN IF answer.status_code = 404
         THEN PollEnd("True", "Finished/Cleared", 0)
         ELSE PollEnd("False", "API Error polling", 0)
    ELSE IF answer.kind = "Exception" THEN PollEnd("none", "", ERROR_SLEEP)
    ELSE IF Lower(Chars(answer.status)) = Chars("failed")
         THEN PollEnd("False", "Failed (Radarr Error)", 0)
         ELSE PollEnd("True", "ok", 0)

\* the poll that does not sleep
poll_nosleep(answer) ==
    IF answer.kind = "HTTPError"
    THEN IF answer.status_code = 404
         THEN PollEnd("True", "Finished/Cleared", 0)
         ELSE PollEnd("False", "API Error polling", 0)
    ELSE IF answer.kind = "Exception" THEN PollEnd("none", "", 0)
    ELSE IF Lower(Chars(answer.status)) = Chars("completed")
         THEN PollEnd("True", "ok", 0)
    ELSE IF Lower(Chars(answer.status)) = Chars("failed")
         THEN PollEnd("False", "Failed (Radarr Error)", 0)
         ELSE PollEnd("none", "", 0)

\* lines 134-158 for one answer of api_get: the value returned ("none": the
\* loop goes on), the line printed and the ticks slept
poll(answer) ==
    IF answer.kind = "HTTPError"
    THEN IF answer.status_code = 404
         THEN PollEnd("True", "Finished/Cleared", 0)
         ELSE PollEnd("False", "API Error polling", 0)
    ELSE IF answer.kind = "Exception" THEN PollEnd("none", "", ERROR_SLEEP)
    ELSE IF Lower(Chars(answer.status)) = Chars("completed")
         THEN PollEnd("True", "ok", 0)
    ELSE IF Lower(Chars(answer.status)) = Chars("failed")
         THEN PollEnd("False", "Failed (Radarr Error)", 0)
         ELSE PollEnd("none", "", POLL_SLEEP)

\* line 130
TimedOut(now, start_time) == now - start_time > timeout * TICKS_PER_SECOND

\* the state after a step: where the call stands, and op
Frame(at, o) == [pc |-> at, op |-> o]

\* lines 111-125 for one answer of func that took d ticks: the triggering
\* call, and the start of the clock
execute_blocking(o, answer, d) ==
    IF ~answer.ok
    THEN Frame("returned", [o EXCEPT !.now = @ + d, !.trigger = answer,
                                     !.ret = "False",
                                     !.printed = "Failed to trigger"])
    ELSE IF answer.res # "id"
    THEN Frame("returned", [o EXCEPT !.now = @ + d, !.trigger = answer,
                                     !.ret = "True", !.printed = "Instant"])
    ELSE Frame("poll", [o EXCEPT !.now = @ + d, !.trigger = answer,
                                 !.start_time = o.now + d])

\* one round of the loop of line 128 for one answer of api_get that took d
\* ticks: the test of the timeout, the poll and the sleep
polling_round(o, answer, d) ==
    IF TimedOut(o.now, o.start_time)
    THEN Frame("returned", [o EXCEPT !.ret = "False", !.printed = "Timeout"])
    ELSE Frame(IF poll(answer).ret = "none" THEN "poll" ELSE "returned",
               [o EXCEPT !.now = @ + d + poll(answer).sleep,
                         !.last = answer,
                         !.polls = IF @ < 2 THEN @ + 1 ELSE @,
                         !.ret = poll(answer).ret,
                         !.printed = poll(answer).printed])

Trigger ==
    /\ pc = "execute_blocking"
    /\ \E answer \in TriggerAnswers, d \in 0..MaxCallTicks :
          /\ pc' = execute_blocking(op, answer, d).pc
          /\ op' = execute_blocking(op, answer, d).op
    /\ UNCHANGED <<fs, dirs, free, execute, library, si, k, target_disk,
                   target_series_folder_name, plan_import_size, skipped_log,
                   log, outcome, dryrun, snap, faulty, roots>>

Poll ==
    /\ pc = "poll"
    /\ \E answer \in PollAnswers, d \in 0..MaxCallTicks :
          /\ pc' = polling_round(op, answer, d).pc
          /\ op' = polling_round(op, answer, d).op
    /\ UNCHANGED <<fs, dirs, free, execute, library, si, k, target_disk,
                   target_series_folder_name, plan_import_size, skipped_log,
                   log, outcome, dryrun, snap, faulty, roots>>

NextBlocking ==
    \/ Trigger
    \/ Poll

\* one call of execute_blocking, at some time of the clock
InitBlocking ==
    /\ \E now \in 0..1 :
          op = [name |-> "execute_blocking", now |-> now, start_time |-> 0,
                trigger |-> [ok |-> FALSE, res |-> "other"], last |-> NoAnswer,
                polls |-> 0, ret |-> "none", printed |-> ""]
    /\ pc = "execute_blocking"
    /\ fs = <<>>
    /\ dirs = {}
    /\ faulty = FALSE
    /\ free = [r \in Range(ROOTS) |-> MIN_FREE_BUFFER + 9]
    /\ snap = [fs |-> fs, dirs |-> dirs, free |-> free]
    /\ execute = TRUE
    /\ library = <<>>
    /\ si = 0
    /\ k = 0
    /\ target_disk = ""
    /\ target_series_folder_name = ""
    /\ plan_import_size = 0
    /\ skipped_log = <<>>
    /\ log = <<>>
    /\ outcome = <<>>
    /\ dryrun = NoRun
    /\ roots = ROOTS

SpecBlocking == InitBlocking /\ [][NextBlocking]_vars

\* the call goes on: the interpreter runs the next round of the loop
SpecBlockingLive == SpecBlocking /\ WF_vars(NextBlocking)

(***************************************************************************)
(* Radarr Organizer (src/radarr-proper-import.py): process_single_item     *)
(*                                                                         *)
(* One call process_single_item(item, qp_id).  op holds the action of the  *)
(* item, movie_id (0: None or an id that is false), the calls made with    *)
(* what they returned, and the value returned.  A call of execute_blocking *)
(* returns True or False (SpecBlocking); api_get without raise_errors      *)
(* returns the body or ends the process (line 83).                         *)
(***************************************************************************)
ITEM_TYPES == {"RELINK", "IMPORT", "RENAME"}

\* the task names of the blocking steps, in the order of the code
TASKS ==
    << "Linking DB Entry", "Importing to DB", "Registering File (Scan)",
       "Renaming Folder", "Updating File Location", "Renaming Video Files",
       "Downloading Metadata/Images", "Finalizing (Scan)" >>

\* a call and what it returned
Made(call, task, ret) == [call |-> call, task |-> task, ret |-> ret]

\* a blocking step that goes on to the next step whatever was returned
blocking_step_ignoring(o, task, ret, next) ==
    Frame(next, [o EXCEPT !.calls = Append(@, Made("execute_blocking", task, ret))])

\* "if not execute_blocking(task, ...): return False": the step of the
\* pipeline that follows is next
blocking_step(o, task, ret, next) ==
    IF ret = "True"
    THEN Frame(next, [o EXCEPT !.calls = Append(@, Made("execute_blocking", task, ret))])
    ELSE Frame("returned",
               [o EXCEPT !.calls = Append(@, Made("execute_blocking", task, ret)),
                         !.ret = "False"])

\* what a call of execute_blocking returns
BlockingReturns == {"True", "False"}

\* the step p leads to the frame f
Step(f) ==
    /\ pc' = f.pc
    /\ op' = f.op
    /\ UNCHANGED <<fs, dirs, free, execute, library, si, k, target_disk,
                   target_series_folder_name, plan_import_size, skipped_log,
                   log, outcome, dryrun, snap, faulty, roots>>

\* lines 388-423: step 1 for the action of the item
ImportOrLink ==
    /\ pc = "process_single_item"
    /\ \E ret \in BlockingReturns :
          Step(IF op.action = "RELINK"
               THEN blocking_step([op EXCEPT !.movie_id = op.db_id],
                                  TASKS[1], ret, "movie_id")
               ELSE IF op.action = "IMPORT"
               THEN blocking_step(op, TASKS[2], ret, "lookup")
               ELSE Frame("movie_id", [op EXCEPT !.movie_id = op.db_id]))

\* lines 411-419: the lookup of the movie that was added
Lookup ==
    /\ pc = "lookup"
    /\ \E answer \in {"id", "none", "exit", "raise"} :
          Step(IF answer = "exit"
               THEN Frame("exited", [op EXCEPT !.calls =
                         Append(@, Made("api_get", "/movie/lookup", answer))])
               ELSE IF answer = "id"
               THEN Frame("movie_id", [op EXCEPT !.movie_id = 7, !.calls =
                         Append(@, Made("api_get", "/movie/lookup", answer))])
               ELSE Frame("returned", [op EXCEPT !.ret = "False", !.calls =
                         Append(@, Made("api_get", "/movie/lookup", answer))]))

\* line 425
CheckMovieId ==
    /\ pc = "movie_id"
    /\ Step(IF op.movie_id = 0
            THEN Frame("returned", [op EXCEPT !.ret = "False"])
            ELSE Frame("scan1", op))

\* line 431
RegisterFile ==
    /\ pc = "scan1"
    /\ \E ret \in BlockingReturns : Step(blocking_step(op, TASKS[3], ret, "move"))

\* lines 434-435
RenameFolder ==
    /\ pc = "move"
    /\ \E ret \in BlockingReturns : Step(blocking_step(op, TASKS[4], ret, "scan2"))

\* line 438
UpdateLocation ==
    /\ pc = "scan2"
    /\ \E ret \in BlockingReturns : Step(blocking_step(op, TASKS[5], ret, "files"))

\* lines 441-445: the files of the movie, and their renaming when there are
\* some; a file entry without 'id' raises KeyError (line 484)
RenameFiles ==
    /\ pc = "files"
    /\ \E answer \in {"files", "none", "exit", "raise"}, ret \in BlockingReturns :
          Step(IF answer = "exit"
               THEN Frame("exited", [op EXCEPT !.calls =
                         Append(@, Made("api_get", "/moviefile", answer))])
               ELSE IF answer = "raise"
               THEN Frame("returned", [op EXCEPT !.ret = "False", !.calls =
                         Append(@, Made("api_get", "/moviefile", answer))])
               ELSE IF answer = "none"
               THEN Frame("cleanup", [op EXCEPT !.calls =
                         Append(@, Made("api_get", "/moviefile", answer))])
               ELSE blocking_step([op EXCEPT !.calls =
                                      Append(@, Made("api_get", "/moviefile", answer))],
                                  TASKS[6], ret, "cleanup"))

\* lines 448-474: the final path of the movie (none, the source folder, a
\* folder that is missing, that holds no video, that holds one), or an
\* exception, which is printed; the source folder is cleaned when the final
\* folder holds a video
SourceCleanup ==
    /\ pc = "cleanup"
    /\ \E answer \in {"none", "same", "missing", "novideo", "video", "raise", "exit"} :
          Step(IF answer = "exit"
               THEN Frame("exited", [op EXCEPT !.calls =
                         Append(@, Made("api_get", "/movie/id", answer))])
               ELSE IF answer = "video"
               THEN Frame("refresh", [op EXCEPT !.calls =
                         @ \o << Made("api_get", "/movie/id", answer),
                                 Made("cleanup_source_folder", "", "None"),
                                 Made("manual_rename_extras_destination", "", "None") >>])
               ELSE Frame("refresh", [op EXCEPT !.calls =
                         Append(@, Made("api_get", "/movie/id", answer))]))

\* line 477
RefreshMetadata ==
    /\ pc = "refresh"
    /\ \E ret \in BlockingReturns : Step(blocking_step(op, TASKS[7], ret, "scan3"))

\* lines 480-482
FinalScan ==
    /\ pc = "scan3"
    /\ \E ret \in BlockingReturns :
          Step(IF blocking_step(op, TASKS[8], ret, "returned").op.ret = "none"
               THEN Frame("returned",
                          [blocking_step(op, TASKS[8], ret, "returned").op
                              EXCEPT !.ret = "True"])
               ELSE blocking_step(op, TASKS[8], ret, "returned"))

NextPipeline ==
    \/ ImportOrLink
    \/ Lookup
    \/ CheckMovieId
    \/ RegisterFile
    \/ RenameFolder
    \/ UpdateLocation
    \/ RenameFiles
    \/ SourceCleanup
    \/ RefreshMetadata
    \/ FinalScan

\* one call of process_single_item for an item of the scan; the id of
\* db_movie is an id or 0
InitPipeline ==
    /\ \E action \in ITEM_TYPES, db_id \in {0, 7} :
          op = [name |-> "process_single_item", action |-> action,
                db_id |-> db_id, movie_id |-> 0, calls |-> <<>>, ret |-> "none"]
    /\ pc = "process_single_item"
    /\ fs = <<>>
    /\ dirs = {}
    /\ faulty = FALSE
    /\ free = [r \in Range(ROOTS) |-> MIN_FREE_BUFFER + 9]
    /\ snap = [fs |-> fs, dirs |-> dirs, free |-> free]
    /\ execute = TRUE
    /\ library = <<>>
    /\ si = 0
    /\ k = 0
    /\ target_disk = ""
    /\ target_series_folder_name = ""
    /\ plan_import_size = 0
    /\ skipped_log = <<>>
    /\ log = <<>>
    /\ outcome = <<>>
    /\ dryrun = NoRun
    /\ roots = ROOTS

SpecPipeline == InitPipeline /\ [][NextPipeline]_vars

(***************************************************************************)
(* Properties                                                              *)
(***************************************************************************)
\* the library entry of a key
EntryOf(key) == library[IndexOf(library, LAMBDA x : x.key = key)]

\* the action lines printed for a series
LinesOf(key) == SelectSeq(log, LAMBDA l : l.series = key)

\* the files and the directories of a series, on every root
SeriesFiles(F, key) ==
    [p \in {q \in DOMAIN F.fs : normalize_name(Chars(q.folder)) = key} |-> F.fs[p]]

SeriesDirSet(F, key) ==
    {d \in F.dirs : normalize_name(Chars(d.folder)) = key}

\* nothing of the series has been moved, deleted or removed
Untouched(key) ==
    /\ SeriesFiles(FS, key) = SeriesFiles(snap, key)
    /\ SeriesDirSet(FS, key) = SeriesDirSet(snap, key)

SkippedFor(name, reason) ==
    \E i \in 1..Len(skipped_log) :
        skipped_log[i] = [name |-> name, reason |-> reason]

\* a target has been selected for the current series and it is being executed
InProgress == pc \in {"episodes", "artifacts", "cleanup"}

\* some slot has two copies of different sizes
HasDifferingCopies(e) ==
    \E i \in 1..Len(e.episodes) :
        \E a, b \in Range(e.episodes[i].copies) : a.size # b.size

\* some slot has two copies of different sizes on different roots
HasDifferingCopiesAcrossRoots(e) ==
    \E i \in 1..Len(e.episodes) :
        \E a, b \in Range(e.episodes[i].copies) :
            a.disk # b.disk /\ a.size # b.size

\* the series was skipped without any effect
SkippedClean(e, reason) ==
    /\ SkippedFor(e.display_name, reason)
    /\ LinesOf(e.key) = <<>>
    /\ Untouched(e.key)

\* C1: a series on more than one root with a slot whose copies differ in
\* size is skipped as conflicting, in both modes, and nothing of it is
\* transferred, deleted or removed; no such series is ever executed.
C1_ConflictSkipsSeries ==
    /\ InProgress => ~HasDifferingCopies(Data)
    /\ \A i \in 1..Len(outcome) :
          LET e == EntryOf(outcome[i].key)
          IN (Len(e.disks) > 1 /\ HasDifferingCopies(e))
                => /\ outcome[i].result = "conflict"
                   /\ SkippedClean(e, "Conflicting duplicates")

\* C1 witness: in apply mode a series with differing copies on two roots
\* has been skipped as conflicting
C1_Witness ==
    /\ execute
    /\ \E i \in 1..Len(outcome) :
          /\ outcome[i].result = "conflict"
          /\ HasDifferingCopiesAcrossRoots(EntryOf(outcome[i].key))

\* C2 as stated: a series whose copies on different roots agree in size is
\* never skipped as conflicting, even when two copies on one root differ.
C2_Original ==
    \A i \in 1..Len(outcome) :
        ~HasDifferingCopiesAcrossRoots(EntryOf(outcome[i].key))
            => outcome[i].result # "conflict"

\* C2 as amended: a series in which all copies of every slot, on whatever
\* roots they lie, have the same size is never skipped as conflicting.
C2_EqualSizesNeverConflict ==
    \A i \in 1..Len(outcome) :
        ~HasDifferingCopies(EntryOf(outcome[i].key))
            => outcome[i].result # "conflict"

\* C2 witness: a series with two equal copies of a slot on different roots
\* has been consolidated
C2_Witness ==
    \E i \in 1..Len(outcome) :
        LET e == EntryOf(outcome[i].key)
        IN /\ outcome[i].result = "consolidated"
           /\ \E j \in 1..Len(e.episodes) :
                 \E a, b \in Range(e.episodes[j].copies) : a.disk # b.disk

\* C3: at the moment a target is selected its free space minus the bytes
\* needed exceeds MIN_FREE_BUFFER; a series skipped for lack of space has
\* its message in the skipped list and nothing of it is touched, and at the
\* moment of that skip no root of the series passes the test.
C3_TargetHasSpace ==
    /\ (pc = "episodes" /\ k = 1)
          => free[target_disk] - BytesNeeded(Data, target_disk) > MIN_FREE_BUFFER
    /\ \A i \in 1..Len(outcome) :
          outcome[i].result = "no space"
              => SkippedClean(EntryOf(outcome[i].key), "No candidate disk")
    /\ (pc = "series" /\ outcome # <<>>
            /\ outcome[Len(outcome)].result = "no space")
          => LET e == EntryOf(outcome[Len(outcome)].key)
             IN \A d \in Range(e.disks) :
                    free[d.disk] - BytesNeeded(e, d.disk) <= MIN_FREE_BUFFER

\* C3 witness: in apply mode a target has just been selected after the
\* root holding most of the series was rejected
C3_Witness ==
    /\ execute
    /\ pc = "episodes"
    /\ k = 1
    /\ Candidates(Data)[1].disk # target_disk

\* the copies the scan finds for a slot of a series in the present file system
CopiesNow(key, slot) ==
    LET now == scan_library(FS, roots)
        i == IndexOf(now, LAMBDA x : x.key = key)
        j == IF i = 0 THEN 0
             ELSE IndexOf(now[i].episodes, LAMBDA x : x.slot = slot)
    IN IF j = 0 THEN <<>> ELSE now[i].episodes[j].copies

\* C4 as stated: after a series has been consolidated in apply mode every
\* slot of it has exactly one surviving episode file, and that file lies in
\* the series folder of the target root.
C4_Original ==
    \A i \in 1..Len(outcome) :
        (execute /\ outcome[i].result = "consolidated")
            => \A j \in 1..Len(EntryOf(outcome[i].key).episodes) :
                  LET copies == CopiesNow(outcome[i].key,
                                          EntryOf(outcome[i].key).episodes[j].slot)
                  IN /\ Len(copies) = 1
                     /\ copies[1].path.root = outcome[i].target
                     /\ copies[1].path.folder = outcome[i].folder

\* C5: in simulate mode the file system is at every moment what it was
\* when the run started: no file, directory or free space has changed.
C5_DryRunChangesNothing ==
    ~execute => (fs = snap.fs /\ dirs = snap.dirs /\ free = snap.free)

\* C5 witness: a finished dry run that planned a move, a merge and a delete
C5_Witness ==
    /\ ~execute
    /\ pc = "done"
    /\ \A o \in {"move", "merge", "delete"} :
          \E i \in 1..Len(log) : log[i].op = o /\ log[i].tag = "DRY-RUN"

\* C6 as stated: the run with --execute decides for every series what the
\* dry run on the same file system decided: the same target, or the same
\* skip.
C6_Original ==
    (execute /\ dryrun.done)
        => \A i \in 1..Len(outcome) :
              /\ outcome[i].result = dryrun.outcome[i].result
              /\ outcome[i].target = dryrun.outcome[i].target

\* what a log line stands for, whichever mode printed it
Planned(l) == [series |-> l.series, op |-> l.op, path |-> l.path]

\* the action lines of a log
Actions(lines) == SelectSeq(lines, LAMBDA l : l.tag # "INFO")

\* C7 as stated: the run with --execute prints as many action lines as the
\* dry run on the same file system, for the same actions in the same order.
C7_Original ==
    (execute /\ pc = "done")
        => /\ Len(Actions(log)) = Len(Actions(dryrun.log))
           /\ \A i \in 1..Len(Actions(log)) :
                 Planned(Actions(log)[i]) = Planned(Actions(dryrun.log)[i])

\* C8: a series the scan found under exactly one root is passed over: no
\* target is selected for it, it is not reported as skipped, no action line
\* is printed for it and nothing of it changes, in both modes.
C8_OneRootSeriesUntouched ==
    /\ InProgress => Len(Data.disks) > 1
    /\ \A i \in 1..Len(outcome) :
          LET e == EntryOf(outcome[i].key)
          IN Len(e.disks) = 1
                => /\ outcome[i].result = "one disk"
                   /\ \A j \in 1..Len(skipped_log) :
                         skipped_log[j].name # e.display_name
                   /\ LinesOf(e.key) = <<>>
                   /\ Untouched(e.key)

\* C8 witness: in apply mode a series on one root, two copies of one slot
\* of different sizes among its files, has been passed over
C8_Witness ==
    /\ execute
    /\ \E i \in 1..Len(outcome) :
          /\ outcome[i].result = "one disk"
          /\ HasDifferingCopies(EntryOf(outcome[i].key))

\* a file that is not junk lies in d or below it
NonJunkUnder(F, d) ==
    \E p \in DOMAIN F.fs :
        IsUnder(DirOf(p), d) /\ Lower(Chars(p.name)) \notin JUNK_FILES

\* C9: cleanup_folder_tree removes a directory only if no file that is not
\* junk lay in it or below it, and when it is removed no file and no
\* directory is left below it; it deletes junk files only, and removes
\* nothing in a dry run.
C9_CleanupKeepsNonJunk ==
    op.name = "cleanup_folder_tree"
        => /\ \A d \in snap.dirs \ dirs :
                 /\ ~op.dry_run
                 /\ ~NonJunkUnder(snap, d)
                 /\ \A p \in DOMAIN fs : ~IsUnder(DirOf(p), d)
                 /\ \A c \in dirs : ~IsUnder(c, d)
           /\ \A p \in DOMAIN snap.fs \ DOMAIN fs :
                 Lower(Chars(p.name)) \in JUNK_FILES
           /\ dirs \subseteq snap.dirs

\* C9 witness: a real cleanup deleted the junk of a directory and left the
\* directory in place because a file that is not junk lies below it
C9_Witness ==
    /\ op.name = "cleanup_folder_tree"
    /\ ~op.dry_run
    /\ op.src \in dirs
    /\ FilesIn(snap, op.src) # <<>>
    /\ FilesIn(FS, op.src) = <<>>
    /\ NonJunkUnder(FS, op.src)

\* C10: when a file of the source's base name exists in the destination
\* directory, safe_move returns False and the file system is unchanged:
\* the destination file keeps its content and the source stays.
C10_SafeMoveNeverOverwrites ==
    (op.name = "safe_move" /\ Join(op.dest_dir, op.src.name) \in DOMAIN snap.fs)
        => /\ ~op.ok
           /\ fs = snap.fs
           /\ dirs = snap.dirs
           /\ free = snap.free

\* C10 witness: a real safe_move of an existing file into another directory
\* that holds a file of the same name has failed
C10_Witness ==
    /\ op.name = "safe_move"
    /\ ~op.dry_run
    /\ op.src \in DOMAIN snap.fs
    /\ DirOf(op.src) # op.dest_dir
    /\ Join(op.dest_dir, op.src.name) \in DOMAIN snap.fs
    /\ ~op.ok

(***************************************************************************)
(* Failed transfers, the order of the steps, the target, the inventory     *)
(***************************************************************************)
\* the positions in the log of the lines "[ABORT] Move failed for S..E.."
FailedMoves == {n \in 1..Len(log) : log[n].op = "episode"}

\* the slot of an entry
SlotEntry(e, slot) == e.episodes[IndexOf(e.episodes, LAMBDA x : x.slot = slot)]

\* the recorded file (a copy, a companion, an artifact) is where the scan
\* found it, with the size the scan found
InPlace(f) == f.path \in DOMAIN fs /\ fs[f.path] = f.size

\* what was recorded of the series when it was left
OutcomeOf(key) == outcome[IndexOf(outcome, LAMBDA o : o.key = key)]

\* a line of the series follows position n in the log
LaterLine(n, key, ops, paths) ==
    \E m \in (n + 1)..Len(log) :
        log[m].series = key /\ log[m].op \in ops /\ log[m].path \in paths

\* after the failure logged at n the run has gone through the later slots of
\* the series, its artifacts and the cleanup of its other roots, and through
\* every series
WentOn(n, e, o) ==
    /\ Len(outcome) = Len(library)
    /\ o.result = "consolidated"
    /\ \A j \in 1..Len(e.episodes) :
          (/\ j > IndexOf(e.episodes, LAMBDA x : x.slot = log[n].path)
           /\ \E c \in Range(e.episodes[j].copies) : c.disk # o.target)
              => \/ LaterLine(n, e.key, {"episode"}, {e.episodes[j].slot})
                 \/ LaterLine(n, e.key, {"move", "delete"},
                              {c.path : c \in Range(e.episodes[j].copies)})
    /\ \A a \in Range(e.artifacts) :
          (a.disk # o.target /\ a.size # UNREADABLE)
              => LaterLine(n, e.key, {"merge"}, {a.path})
    /\ \A d \in Range(e.disks) :
          d.disk # o.target
              => LaterLine(n, e.key, {"cleaning"},
                           {SeriesDir(d.disk, d.real_folder)})

\* C11: when the move of a slot's chosen copy has failed (the line "Move
\* failed" is in the log), every copy of the slot and every companion of
\* these copies is still where the scan found it, with its size; and when
\* the run has ended it has gone on after the failure: the later slots of the
\* series, its artifacts and the cleanup of its other roots have been
\* handled, and every series of the library has been processed.
C11_FailedTransferIsolated ==
    \A n \in FailedMoves :
        /\ \A c \in Range(SlotEntry(EntryOf(log[n].series), log[n].path).copies) :
              /\ InPlace(c)
              /\ \A i \in 1..Len(c.companions) : InPlace(c.companions[i])
        /\ pc = "done"
              => WentOn(n, EntryOf(log[n].series), OutcomeOf(log[n].series))

\* C11 witness: an apply run has ended in which the move of a slot of a
\* series raised an I/O error and a later slot of the series was moved
\* afterwards
C11_Witness ==
    /\ execute
    /\ pc = "done"
    /\ \E n \in FailedMoves :
          /\ log[n - 1].tag = "CRITICAL ERROR"
          /\ LaterLine(n, log[n].series, {"move"}, DOMAIN snap.fs)

\* C11 second witness: an apply run has ended in which the move of a slot hit
\* a file of the same name on the target
C11_WitnessCollision ==
    /\ execute
    /\ pc = "done"
    /\ \E n \in FailedMoves : log[n - 1].op = "collision"

\* C11 third witness: an apply run has ended in which the move of a slot
\* that has two copies off the target failed
C11_WitnessTwoCopies ==
    /\ execute
    /\ pc = "done"
    /\ \E n \in FailedMoves :
          Len(SlotEntry(EntryOf(log[n].series), log[n].path).copies) > 1

\* the reason printed for a skipped series
ReasonOf(result) ==
    IF result = "conflict" THEN "Conflicting duplicates" ELSE "No candidate disk"

\* C12: a series for which a target was selected (the line "Consolidating
\* to" is printed) is, when the run has ended, recorded as consolidated, and
\* after that line the cleanup of each of its roots other than the target
\* was started, whether or not a move of the series failed; a series skipped
\* for a conflict or for lack of space has no line at all, nothing of it is
\* changed, and its message is in the list of skipped series.
C12_SelectedSeriesReachCleanup ==
    /\ \A n \in 1..Len(log) :
          (log[n].op = "target" /\ pc = "done")
              => /\ OutcomeOf(log[n].series).result = "consolidated"
                 /\ \A d \in Range(EntryOf(log[n].series).disks) :
                       d.disk # OutcomeOf(log[n].series).target
                           => LaterLine(n, log[n].series, {"cleaning"},
                                        {SeriesDir(d.disk, d.real_folder)})
    /\ \A i \in 1..Len(outcome) :
          outcome[i].result \in {"conflict", "no space"}
              => SkippedClean(EntryOf(outcome[i].key), ReasonOf(outcome[i].result))

\* C12 witness: an apply run has ended in which a move of a series failed
\* and the cleanup of a root of the series was started afterwards
C12_Witness ==
    /\ execute
    /\ pc = "done"
    /\ \E n \in FailedMoves :
          LaterLine(n, log[n].series, {"cleaning"}, DirUniverse)

\* C12 second witness: an apply run has ended with a series skipped for lack
\* of space
C12_WitnessSkipped ==
    /\ execute
    /\ pc = "done"
    /\ \E i \in 1..Len(outcome) : outcome[i].result = "no space"

RECURSIVE SumOver(_, _)
\* the sum of f over the set S
SumOver(S, f) ==
    IF S = {} THEN 0
    ELSE LET x == CHOOSE y \in S : TRUE
         IN f[x] + SumOver(S \ {x}, f)

\* the bytes the readable files of a root take
UsedOn(f, root) ==
    SumOver({p \in DOMAIN f : p.root = root /\ f[p] # UNREADABLE}, f)

\* the file system with the free space worked out from the free space at the
\* start of the run and the bytes that have since come to and left each root
Reckoned ==
    [fs |-> fs, dirs |-> dirs,
     free |-> [r \in Range(ROOTS) |->
                  snap.free[r] + UsedOn(snap.fs, r) - UsedOn(fs, r)]]

\* the lines of the log are grouped by series, in ascending order of the keys
LogInKeyOrder ==
    \A m, n \in 1..Len(log) :
        m < n => \/ log[m].series = log[n].series
                 \/ StrLess(log[m].series, log[n].series)

\* C13: the series are gone through in ascending order of their normalized
\* keys, every line of one series (transfers, deletions, cleanup) before the
\* first line of the next; and when a target has just been selected, it is
\* the first candidate that passes the free-space test on the free space
\* that results from the bytes moved and deleted so far in the run.
C13_SeriesInOrderOnLiveSpace ==
    /\ \A i, j \in 1..Len(outcome) :
          i < j => StrLess(outcome[i].key, outcome[j].key)
    /\ LogInKeyOrder
    /\ InProgress => \A i \in 1..Len(outcome) : StrLess(outcome[i].key, Data.key)
    /\ (pc = "episodes" /\ k = 1)
          => /\ SelectIndex(Reckoned, Data) # 0
             /\ Candidates(Data)[SelectIndex(Reckoned, Data)].disk = target_disk

\* C13 witness: in apply mode a target has just been selected for the second
\* series of the run on a root whose free space the first series has
\* changed, and on the free space of the start another root would be chosen
C13_Witness ==
    /\ execute
    /\ pc = "episodes"
    /\ k = 1
    /\ outcome # <<>>
    /\ outcome[Len(outcome)].result = "consolidated"
    /\ free[target_disk] # snap.free[target_disk]
    /\ SelectIndex(snap, Data) # 0
    /\ Candidates(Data)[SelectIndex(snap, Data)].disk # target_disk

\* the root passes the free-space test of line 387 for the current series
Passes(d) == free[d.disk] - BytesNeeded(Data, d.disk) > MIN_FREE_BUFFER

\* the root d comes before the root t in the order of the candidates: it
\* holds more of the series, or as much and was scanned first
Precedes(d, t) ==
    \/ d.total_size > t.total_size
    \/ /\ d.total_size = t.total_size
       /\ IndexOf(Data.disks, LAMBDA x : x = d) < IndexOf(Data.disks, LAMBDA x : x = t)

\* C14: when a target has just been selected, the target passes the
\* free-space test, and no root of the series that holds more of the series
\* than the target, or holds as much and was scanned before it, passes it.
C14_FirstPassingCandidate ==
    (pc = "episodes" /\ k = 1)
        => \E t \in Range(Data.disks) :
              /\ t.disk = target_disk
              /\ t.real_folder = target_series_folder_name
              /\ Passes(t)
              /\ \A d \in Range(Data.disks) : Precedes(d, t) => ~Passes(d)

\* C14 witness: in apply mode the root scanned second has just been selected
\* although the root scanned first passes the test too, because the second
\* holds more of the series
C14_Witness ==
    /\ execute
    /\ pc = "episodes"
    /\ k = 1
    /\ Len(Data.disks) = 2
    /\ Data.disks[2].disk = target_disk
    /\ Passes(Data.disks[1])

\* C14 second witness: two roots hold as much of the series, both pass the
\* test, and the root scanned first has just been selected
C14_WitnessTie ==
    /\ execute
    /\ pc = "episodes"
    /\ k = 1
    /\ Len(Data.disks) = 2
    /\ Data.disks[1].total_size = Data.disks[2].total_size
    /\ Data.disks[1].disk = target_disk
    /\ Passes(Data.disks[2])

\* the target root of a series that is being executed or has been executed
TargetOf(key) ==
    IF InProgress /\ Data.key = key THEN target_disk ELSE OutcomeOf(key).target

\* the folder name the scan recorded for the series on a root
RecordedFolder(key, root) ==
    LET ds == EntryOf(key).disks
    IN ds[IndexOf(ds, LAMBDA d : d.disk = root)].real_folder

\* where a transferred file of the series has to be put
Placed(key, p) ==
    [root |-> TargetOf(key),
     folder |-> RecordedFolder(key, TargetOf(key)),
     rel |-> p.rel,
     name |-> p.name]

\* the positions in the log of the lines of the real transfers
Transfers == {n \in 1..Len(log) : log[n].tag \in {"MOVED", "MERGED"}}

\* C15: a file that has been transferred (moved or merged) lies on the
\* target root, in the folder of the name the scan recorded for the series
\* on that root, in the directory below it that it had below its source
\* folder, under its base name; and no file has appeared anywhere else.
C15_TransfersLandInRecordedFolder ==
    /\ \A n \in Transfers : Placed(log[n].series, log[n].path) \in DOMAIN fs
    /\ \A q \in DOMAIN fs \ DOMAIN snap.fs :
          \E n \in Transfers : q = Placed(log[n].series, log[n].path)

\* C15 witness: a file in a subdirectory has been moved to a target whose
\* recorded folder name is not the display name of the series
C15_Witness ==
    \E n \in Transfers :
        /\ log[n].path.rel # <<>>
        /\ Placed(log[n].series, log[n].path).folder
              # EntryOf(log[n].series).display_name
        /\ Placed(log[n].series, log[n].path) \notin DOMAIN snap.fs

\* C16: normalize_name gives for its own result that result again, and it
\* gives one key for two names of which one differs from the other in the
\* case of a letter, in '.' or '_' standing for a space, or in a space
\* before or after the name.
C16_NormalizeIdempotentAndInsensitive ==
    op.name = "normalize_name"
        => /\ op.key_key_x = op.key_x
           /\ op.key_y = op.key_x

\* C16 witness: a name that is not its own key and a different spelling of
\* it have been normalized
C16_Witness ==
    /\ op.name = "normalize_name"
    /\ op.x # op.key_x
    /\ op.y # op.key_x
    /\ op.x # op.y
    /\ op.key_x # <<>>

\* the files of the directory d, as the scan found them, whose names match
\* PATTERN with the slot
MatchingFiles(d, slot) ==
    {p \in DOMAIN snap.fs : /\ DirOf(p) = d
                            /\ PatternMatches(Chars(p.name))
                            /\ SlotOf(p.name) = slot}

\* the slots of the matching files of the scanned directories
ScannedSlots == {SlotOf(p.name) : p \in {q \in DOMAIN snap.fs :
                                              PatternMatches(Chars(q.name))}}

\* the places <<i, j, n>> of the library at which a copy of the slot in the
\* directory d is recorded
CopyPlaces(d, slot) ==
    {x \in UNION {UNION {{<<i, j, n>> : n \in 1..Len(library[i].episodes[j].copies)} :
                          j \in 1..Len(library[i].episodes)} :
                  i \in 1..Len(library)} :
        /\ library[x[1]].episodes[x[2]].slot = slot
        /\ DirOf(library[x[1]].episodes[x[2]].copies[x[3]].path) = d}

CopyAt(x) == library[x[1]].episodes[x[2]].copies[x[3]]

\* C17: after the scan, for every directory and slot at most one copy is
\* recorded; one is recorded exactly when some matching file of the
\* directory for the slot is larger than MIN_VIDEO_SIZE; the recorded copy is
\* a matching file of the directory than which none is larger, with the size
\* read for it, and the other matching files of the directory for the slot
\* are its companions; no recorded copy is as small as MIN_VIDEO_SIZE.
C17_OneCopyPerDirectoryAndSlot ==
    pc # "scan"
        => \A d \in snap.dirs, slot \in ScannedSlots :
              /\ Cardinality(CopyPlaces(d, slot)) <= 1
              /\ (CopyPlaces(d, slot) # {})
                    <=> \E p \in MatchingFiles(d, slot) : snap.fs[p] > MIN_VIDEO_SIZE
              /\ \A x \in CopyPlaces(d, slot) :
                    /\ CopyAt(x).path \in MatchingFiles(d, slot)
                    /\ CopyAt(x).size = snap.fs[CopyAt(x).path]
                    /\ CopyAt(x).size > MIN_VIDEO_SIZE
                    /\ \A p \in MatchingFiles(d, slot) : snap.fs[p] <= CopyAt(x).size
                    /\ MatchingFiles(d, slot) \ {CopyAt(x).path}
                          \subseteq {CopyAt(x).companions[i].path :
                                         i \in 1..Len(CopyAt(x).companions)}

\* C17 witness: the scan has recorded the file listed second of a slot as
\* the copy, the larger one, and the file listed first as its companion
C17_Witness ==
    /\ pc # "scan"
    /\ \E d \in snap.dirs, slot \in ScannedSlots :
          \E x \in CopyPlaces(d, slot) :
              /\ CopyAt(x).path.name = NAMES[2]
              /\ Len(CopyAt(x).companions) = 1
              /\ CopyAt(x).companions[1].path.name = NAMES[1]

\* C17 second witness: the scan has found a slot in a directory whose
\* matching files are all too small and has recorded no copy for it
C17_WitnessNone ==
    /\ pc # "scan"
    /\ \E d \in snap.dirs, slot \in ScannedSlots :
          /\ MatchingFiles(d, slot) # {}
          /\ CopyPlaces(d, slot) = {}

\* the paths the library records as copies or as companions of copies
ClaimedPaths ==
    UNION {UNION {UNION {{c.path} \cup {c.companions[i].path :
                                            i \in 1..Len(c.companions)} :
                         c \in Range(ep.copies)} :
                  ep \in Range(e.episodes)} :
           e \in Range(library)}

\* the paths recorded as artifacts of the series a file belongs to
ArtifactPathsFor(p) ==
    {a.path : a \in Range(EntryOf(normalize_name(Chars(p.folder))).artifacts)}

\* C18 as stated: after the scan every file of a series folder that is
\* neither a copy nor a companion is recorded as an artifact of the series.
C18_Original ==
    pc # "scan"
        => \A p \in DOMAIN snap.fs :
              p \notin ClaimedPaths => p \in ArtifactPathsFor(p)

\* C18 amended: after the scan every file of a series folder that is
\* neither a copy nor a companion and whose name does not begin with '.' is
\* recorded as an artifact of the series; a file that is neither a copy nor
\* a companion and whose name begins with '.' is not in the inventory.
C18_UnclaimedVisibleFilesAreArtifacts ==
    pc # "scan"
        => \A p \in DOMAIN snap.fs :
              p \notin ClaimedPaths
                  => (p \in ArtifactPathsFor(p)
                          <=> ~StartsWith(Chars(p.name), <<".">>))

\* C18 witness: the scan has recorded as an artifact a file that matches
\* PATTERN and is too small to be a copy, next to a file whose name begins
\* with '.' that it has not recorded
C18_Witness ==
    /\ pc # "scan"
    /\ \E p, q \in DOMAIN snap.fs :
          /\ PatternMatches(Chars(p.name))
          /\ p \notin ClaimedPaths
          /\ p \in ArtifactPathsFor(p)
          /\ DirOf(q) = DirOf(p)
          /\ StartsWith(Chars(q.name), <<".">>)
          /\ q \notin ArtifactPathsFor(q)

\* the paths the library records as copies
CopyPaths ==
    UNION {UNION {{c.path : c \in Range(ep.copies)} : ep \in Range(e.episodes)} :
           e \in Range(library)}

\* the series has a file for a slot that cannot be read on one root and a
\* readable episode file for the same slot on another root
HasUnreadableAndReadable(key) ==
    \E p, q \in DOMAIN snap.fs :
        /\ normalize_name(Chars(p.folder)) = key
        /\ normalize_name(Chars(q.folder)) = key
        /\ p.root # q.root
        /\ PatternMatches(Chars(p.name))
        /\ PatternMatches(Chars(q.name))
        /\ SlotOf(p.name) = SlotOf(q.name)
        /\ snap.fs[p] = UNREADABLE
        /\ snap.fs[q] > MIN_VIDEO_SIZE

Consolidated ==
    {i \in 1..Len(outcome) : execute /\ outcome[i].result = "consolidated"}

\* the artifacts of the entry recorded on other roots than the target that
\* have the directory and the name of the artifact a, in the order of the
\* scan
SameNamed(e, target, a) ==
    SelectSeq(e.artifacts,
              LAMBDA b : /\ b.disk # target
                         /\ b.rel_dir = a.rel_dir
                         /\ b.path.name = a.path.name)

\* every artifact in As recorded on another root than the target has left
\* its place, and the file of its name in its directory under the target
\* folder is the last such artifact transferred
ArtifactsMerged(e, o, As) ==
    \A a \in As :
        a.disk # o.target
            => /\ a.path \notin DOMAIN fs
               /\ Placed(e.key, a.path) \in DOMAIN fs
               /\ fs[Placed(e.key, a.path)]
                     = SameNamed(e, o.target, a)[Len(SameNamed(e, o.target, a))].size

\* the artifacts of the entry whose files could be read
Readable(e) == {a \in Range(e.artifacts) : a.size # UNREADABLE}

\* C20 as stated: after a series has been consolidated in apply mode, every
\* artifact recorded on another root than the target lies under the target
\* folder in its directory, and every artifact recorded on the target root
\* is still the file the scan found.
C20_Original ==
    \A i \in Consolidated :
        /\ ArtifactsMerged(EntryOf(outcome[i].key), outcome[i],
                           Range(EntryOf(outcome[i].key).artifacts))
        /\ \A a \in Range(EntryOf(outcome[i].key).artifacts) :
              a.disk = outcome[i].target => InPlace(a)

\* C20 amended: after a series has been consolidated in apply mode, every
\* artifact recorded on another root than the target whose file could be
\* read lies under the target folder in its directory; a readable artifact
\* recorded on the target root is not moved away and not deleted as such,
\* and it is still the file the scan found unless a file of its name was
\* merged into its directory from another root, which then has taken its
\* place.
C20_ArtifactsMergedTargetKeptOrReplaced ==
    \A i \in Consolidated :
        /\ ArtifactsMerged(EntryOf(outcome[i].key), outcome[i],
                           Readable(EntryOf(outcome[i].key)))
        /\ \A a \in Readable(EntryOf(outcome[i].key)) :
              a.disk = outcome[i].target
                  => /\ a.path \in DOMAIN fs
                     /\ \A n \in 1..Len(log) :
                           log[n].op \in {"move", "merge", "delete"}
                               => log[n].path # a.path
                     /\ InPlace(a)
                           \/ \E n \in Transfers :
                                 /\ log[n].tag = "MERGED"
                                 /\ log[n].series = outcome[i].key
                                 /\ Placed(log[n].series, log[n].path) = a.path
                                 /\ fs[a.path] = snap.fs[log[n].path]

\* C20 witness: an apply run has consolidated a series of which an artifact
\* on the target root was replaced by the artifact of its name from the
\* other root, of another size
C20_Witness ==
    \E i \in Consolidated :
        \E a \in Range(EntryOf(outcome[i].key).artifacts) :
            /\ a.disk = outcome[i].target
            /\ a.path \in DOMAIN fs
            /\ fs[a.path] # a.size

\* C20 second witness: an apply run has merged an artifact into a target
\* directory that held no file of its name, next to an artifact of the
\* target that stays as it was
C20_WitnessKept ==
    \E i \in Consolidated :
        \E a, b \in Range(EntryOf(outcome[i].key).artifacts) :
            /\ a.disk = outcome[i].target
            /\ b.disk # outcome[i].target
            /\ Placed(outcome[i].key, b.path) \notin DOMAIN snap.fs
            /\ InPlace(a)

(***************************************************************************)
(* What a consolidation leaves behind, merges and deletes, and the free    *)
(* space of the target                                                     *)
(***************************************************************************)
\* the files recorded for the series on other roots than the target: the
\* episode copies, their companions and the artifacts
RecordedOff(e, target) ==
    UNION { {c.path} \cup {m.path : m \in Range(c.companions)} :
              c \in {x \in UNION {Range(ep.copies) : ep \in Range(e.episodes)} :
                        x.disk # target} }
    \cup {a.path : a \in {x \in Range(e.artifacts) : x.disk # target}}

\* no transfer and no deletion of the series failed: no line ABORT, ERROR or
\* CRITICAL ERROR is printed for it, and each file recorded off the target
\* has its line MOVED, MERGED or DELETED (safe_delete and force_move print
\* nothing when they find no file)
AllSucceeded(e, o) ==
    /\ \A n \in 1..Len(log) :
          log[n].series = e.key
              => log[n].tag \notin {"ABORT", "ERROR", "CRITICAL ERROR"}
    /\ \A p \in RecordedOff(e, o.target) :
          \E n \in 1..Len(log) :
              /\ log[n].series = e.key
              /\ log[n].tag \in {"MOVED", "MERGED", "DELETED"}
              /\ log[n].path = p

\* the files and the directories of a series that lie below a root
LeftOn(key, root) ==
    {p \in DOMAIN fs : p.root = root /\ normalize_name(Chars(p.folder)) = key}
    \cup {d \in dirs : d.root = root /\ normalize_name(Chars(d.folder)) = key}

Begun == {log[n].series : n \in {m \in 1..Len(log) : log[m].op = "target"}}

Ended == {outcome[i].key : i \in 1..Len(outcome)}

\* C22 as stated: an interrupt takes effect only at a series boundary: when an
\* apply run has been stopped by an interrupt, every series whose execution
\* had begun has completed its transfers, its deletions and its cleanup.
C22_Original ==
    (pc = "interrupted" /\ execute) => Begun \subseteq Ended

(***************************************************************************)
(* What cleanup_source_folder of the Radarr tool deletes and moves         *)
(***************************************************************************)
\* the lower-cased base name of a path of the Radarr tool
LowerName(path) == Lower(Chars(path[Len(path)]))

\* the call (os.remove, shutil.move) has been made on the path
Called(name, path) ==
    \E i \in 1..Len(op.calls) :
        op.calls[i].call = name /\ op.calls[i].path = path

\* the call has been made on the path and has done its work
Done(name, path) ==
    \E i \in 1..Len(op.calls) :
        /\ op.calls[i].call = name
        /\ op.calls[i].path = path
        /\ op.calls[i].io = "ok"

\* the entries of the source folder the loop has been through
Handled == {PathJoin(op.source_path, op.files[i]) : i \in 1..(k - 1)}

C25_Original ==
    \A p \in DOMAIN snap.fs :
        Done("remove", p)
            => \/ EndsWith(LowerName(p), JUNK_EXTS)
               \/ EndsWith(LowerName(p), <<Chars(".nfo")>>) /\ p \in op.xml

\* C26 as stated: a scene (non-XML) .nfo file of the source folder is moved
\* next to the final movie file or left in place, and is never deleted.
C26_Original ==
    \A p \in DOMAIN snap.fs :
        (EndsWith(LowerName(p), <<Chars(".nfo")>>) /\ p \notin op.xml)
            => ~Done("remove", p)

\* the folder of the target selected for a series that is being executed or has
\* been executed
TargetFolderOf(key) ==
    IF InProgress /\ Data.key = key
    THEN target_series_folder_name
    ELSE OutcomeOf(key).folder

\* the episode copies recorded for a series
CopiesOf(e) == UNION {Range(ep.copies) : ep \in Range(e.episodes)}

\* where the move of the copy c to the target of its series puts it
DestOf(key, c) ==
    Join(SubDir(SeriesDir(abspath(TargetOf(key)), TargetFolderOf(key)),
                c.rel_dir),
         c.path.name)

\* the line MOVED has been printed for the copy
Moved(key, c) ==
    \E n \in 1..Len(log) :
        log[n].series = key /\ log[n].tag = "MOVED" /\ log[n].path = c.path

\* C27 as stated: no merge-transfer removes or overwrites an episode copy at
\* the destination: in apply mode an episode copy recorded on the target root
\* of its series, and an episode copy that has been moved there, remains
\* there with its recorded size.
C27_Original ==
    execute
        => \A key \in Begun :
              \A c \in CopiesOf(EntryOf(key)) :
                  /\ c.disk = TargetOf(key)
                        => c.path \in DOMAIN fs /\ fs[c.path] = c.size
                  /\ Moved(key, c)
                        => /\ DestOf(key, c) \in DOMAIN fs
                           /\ fs[DestOf(key, c)] = c.size

\* the copy c2 of a slot lies under the target root in the file system f with
\* its recorded size: it was recorded there, or one of the lines is its MOVED
\* line and it lies where the move puts it
OnTargetIn(f, lines, key, c2) ==
    \/ /\ c2.disk = target_disk
       /\ c2.path \in DOMAIN f
       /\ f[c2.path] = c2.size
    \/ /\ \E n \in 1..Len(lines) :
             lines[n].tag = "MOVED" /\ lines[n].path = c2.path
       /\ DestOf(key, c2) \in DOMAIN f
       /\ f[DestOf(key, c2)] = c2.size

\* C28 as stated: in apply mode, whenever the executor deletes an episode
\* copy, a copy of the same slot with the same recorded size lies under the
\* target root at that moment, recorded there or moved there by the same
\* step before the deletion.
C28_Original ==
    [][(execute /\ pc = "episodes" /\ pc' = "episodes" /\ k' = k + 1)
          => \A c \in Range(Data.episodes[k].copies) :
                (\E n \in (Len(log) + 1)..Len(log') :
                    log'[n].tag = "DELETED" /\ log'[n].path = c.path)
                    => \E c2 \in Range(Data.episodes[k].copies) :
                          /\ c2.size = c.size
                          /\ OnTargetIn(fs', SubSeq(log', Len(log) + 1, Len(log')),
                                        Data.key, c2)]_vars

\* two entries of the root list denote the same directory
AliasedRoots ==
    \E i, j \in 1..Len(roots) : i < j /\ abspath(roots[i]) = abspath(roots[j])

\* the content of the episode-sized file p of the first snapshot is still held
\* by a file of its series
StillHeld(p) ==
    \E q \in DOMAIN fs :
        /\ normalize_name(Chars(q.folder)) = normalize_name(Chars(p.folder))
        /\ fs[q] = snap.fs[p]

\* C29 as stated: when two entries of the root list denote the same physical
\* directory, no apply run deletes an episode file that has no other physical
\* copy: a file of a series that no second file of the series duplicates is
\* still there, in its place or where it was moved.
C29_Original ==
    (execute /\ AliasedRoots)
        => \A p \in DOMAIN snap.fs :
              (/\ snap.fs[p] > MIN_VIDEO_SIZE
               /\ \A q \in DOMAIN snap.fs \ {p} :
                     normalize_name(Chars(q.folder)) = normalize_name(Chars(p.folder))
                         => snap.fs[q] # snap.fs[p])
                  => StillHeld(p)

\* C30 as stated: after a series has been executed in apply mode, the free
\* space of its target root is still greater than MIN_FREE_BUFFER.
C30_Original ==
    \A i \in Consolidated :
        get_free_space(FS, outcome[i].target) > MIN_FREE_BUFFER

(***************************************************************************)
(* bytes_needed and the files transferred; where the Cleaner works         *)
(***************************************************************************)
\* the size the scan recorded for the file p of the entry (a copy, a
\* companion or an artifact)
RecordedSize(e, p) ==
    LET files == UNION { {[path |-> c.path, size |-> c.size]}
                         \cup {[path |-> m.path, size |-> m.size] :
                                  m \in Range(c.companions)} :
                         c \in CopiesOf(e) }
                 \cup {[path |-> a.path, size |-> a.size] : a \in Range(e.artifacts)}
    IN (CHOOSE f \in files : f.path = p).size

\* the sum of the recorded sizes of the files of the series for which a line
\* MOVED or MERGED has been printed
TransferredBytes(e) ==
    SumSeq([n \in 1..Len(LinesOf(e.key)) |->
              IF LinesOf(e.key)[n].tag \in {"MOVED", "MERGED"}
              THEN RecordedSize(e, LinesOf(e.key)[n].path)
              ELSE 0])

ToTransfer(e, target) ==
    Flatten([j \in 1..Len(e.episodes) |->
               IF \E c \in Range(e.episodes[j].copies) : c.disk = target
               THEN <<>>
               ELSE <<e.episodes[j].copies[1].path>>
                    \o [m \in 1..Len(e.episodes[j].copies[1].companions) |->
                          e.episodes[j].copies[1].companions[m].path]])
    \o Flatten([a \in 1..Len(e.artifacts) |->
                  IF e.artifacts[a].disk # target
                  THEN <<e.artifacts[a].path>>
                  ELSE <<>>])

\* the lines MOVED and MERGED printed for a series
TransferLines(key) ==
    SelectSeq(LinesOf(key), LAMBDA l : l.tag \in {"MOVED", "MERGED"})

C31_WitnessAborted ==
    \E i \in Consolidated :
        /\ Len(TransferLines(outcome[i].key))
               < Len(ToTransfer(EntryOf(outcome[i].key), outcome[i].target))
        /\ outcome[i].need > TransferredBytes(EntryOf(outcome[i].key))

\* the files and directories of F in the series folder `folder` of the
\* directory that root denotes
TreeFiles(F, root, folder) ==
    {p \in DOMAIN F.fs : p.root = abspath(root) /\ p.folder = folder}

TreeDirs(F, root, folder) ==
    {d \in F.dirs : d.root = abspath(root) /\ d.folder = folder}

\* the step of the loop of line 440 for an involved disk
CleanupStep == pc = "cleanup" /\ k <= Len(Data.disks) /\ k' = k + 1

\* C32 as stated: a step of the cleanup loop cleans the series folder of a
\* root only if the root is not the target, it deletes no file and removes
\* no directory of the series folder of the target root, and in apply mode it
\* leaves no junk-named file in the tree it cleans, whatever else the
\* directories of the tree keep.
C32_Original ==
    [][CleanupStep
          => /\ (Len(log') > Len(log)) => Data.disks[k].disk # target_disk
             /\ TreeFiles(FS, target_disk, target_series_folder_name)
                    \subseteq DOMAIN fs'
             /\ TreeDirs(FS, target_disk, target_series_folder_name)
                    \subseteq dirs'
             /\ (execute /\ ~faulty /\ Data.disks[k].disk # target_disk)
                    => \A p \in TreeFiles(FS, Data.disks[k].disk,
                                          Data.disks[k].real_folder) :
                          Lower(Chars(p.name)) \in JUNK_FILES
                              => p \notin DOMAIN fs']_vars

\* an apply run has cleaned the series folder of a root other than the target:
\* it deleted a junk file from a directory that keeps a file that is not junk
C32_Witness ==
    /\ execute
    /\ \E i \in Consolidated :
          \E n \in 1..Len(LinesOf(outcome[i].key)) :
              /\ LinesOf(outcome[i].key)[n].tag = "DELETED"
              /\ Lower(Chars(LinesOf(outcome[i].key)[n].path.name)) \in JUNK_FILES
              /\ LinesOf(outcome[i].key)[n].path.root # abspath(outcome[i].target)
              /\ \E q \in DOMAIN fs :
                    /\ DirOf(q) = DirOf(LinesOf(outcome[i].key)[n].path)
                    /\ Lower(Chars(q.name)) \notin JUNK_FILES

(***************************************************************************)
(* What execute_blocking of the Radarr tool returns                        *)
(***************************************************************************)
\* the state of the command that a poll reported
ReportedState(answer) == Lower(Chars(answer.status))

Reported(answer, state) ==
    answer.kind = "dict" /\ ReportedState(answer) = Chars(state)

HTTPFailed(answer, codes) ==
    answer.kind = "HTTPError" /\ answer.status_code \in codes

\* a step of execute_blocking that returns the value
Returns(value) == pc # "returned" /\ pc' = "returned" /\ op'.ret = value

\* C34: execute_blocking returns True only if the triggering call succeeded
\* and the response carried no command id, or a poll reported 'completed',
\* or a poll failed with HTTP 404; it returns False when the trigger failed,
\* when a poll reported 'failed', when a poll failed with another HTTP
\* error, and when the timeout had elapsed at the test of the loop, and for
\* no other reason; it does not return True on a poll that reported another
\* state, and after such a poll or a poll with another error it goes on.
C34_ReturnsTrueOnlyWhenDone ==
    [][op.name = "execute_blocking"
          => /\ Returns("True")
                  => /\ op'.trigger.ok
                     /\ \/ pc = "execute_blocking" /\ op'.trigger.res # "id"
                        \/ pc = "poll" /\ Reported(op'.last, "completed")
                        \/ pc = "poll" /\ HTTPFailed(op'.last, {404})
                     /\ ~(pc = "poll" /\ op'.last.kind = "dict"
                             /\ ~Reported(op'.last, "completed"))
             /\ Returns("False")
                  => \/ pc = "execute_blocking" /\ ~op'.trigger.ok
                     \/ pc = "poll" /\ TimedOut(op.now, op.start_time)
                     \/ pc = "poll" /\ Reported(op'.last, "failed")
                     \/ pc = "poll" /\ HTTPFailed(op'.last, {500})
             /\ (pc = "execute_blocking" /\ ~op'.trigger.ok) => Returns("False")
             /\ (pc = "poll" /\ TimedOut(op.now, op.start_time))
                  => Returns("False") /\ op'.last = op.last
             /\ (pc = "poll" /\ ~TimedOut(op.now, op.start_time)
                    /\ (Reported(op'.last, "failed") \/ HTTPFailed(op'.last, {500})))
                  => Returns("False")
             /\ pc' = "returned" => op'.ret \in {"True", "False"}
             /\ pc' # "returned" => op'.ret = "none"]_vars

\* True was returned after two polls or more, the last of which reported the
\* state 'Completed'
C34_Witness ==
    /\ op.name = "execute_blocking"
    /\ pc = "returned"
    /\ op.ret = "True"
    /\ op.polls >= 2
    /\ op.last.status = "Completed"

\* C35: every call of execute_blocking returns, whatever the polls answer.
C35_EventuallyReturns ==
    (op.name = "execute_blocking") ~> (pc = "returned" /\ op.ret \in {"True", "False"})

\* the call has returned False at the timeout, after polls the last of which
\* raised an error that is no HTTP error
C35_Witness ==
    /\ op.name = "execute_blocking"
    /\ pc = "returned"
    /\ op.printed = "Timeout"
    /\ op.polls >= 2
    /\ op.last.kind = "Exception"

\* the call has returned False at the timeout, after polls the last of which
\* reported a state that is neither 'completed' nor 'failed'
C35_WitnessNonTerminal ==
    /\ op.name = "execute_blocking"
    /\ pc = "returned"
    /\ op.printed = "Timeout"
    /\ op.last.kind = "dict"
    /\ op.last.status \in {"queued", NoStatus}

(***************************************************************************)
(* The order of the steps of process_single_item of the Radarr tool        *)
(***************************************************************************)
\* the place of a call in the order import/link, rescan, folder move,
\* rescan, file rename, source cleanup, metadata refresh, final rescan; 0 for
\* a call that is none of these steps
StepRank(c) ==
    IF c.call = "cleanup_source_folder" THEN 6
    ELSE IF c.call # "execute_blocking" THEN 0
    ELSE IF c.task \in {TASKS[1], TASKS[2]} THEN 1
    ELSE IF c.task = TASKS[3] THEN 2
    ELSE IF c.task = TASKS[4] THEN 3
    ELSE IF c.task = TASKS[5] THEN 4
    ELSE IF c.task = TASKS[6] THEN 5
    ELSE IF c.task = TASKS[7] THEN 7
    ELSE 8

\* the step of the rank was made before the call j and returned True
SucceededBefore(rank, j) ==
    \E i \in 1..(j - 1) : StepRank(op.calls[i]) = rank /\ op.calls[i].ret = "True"

\* the movie had files when they were asked for before the call j
HadFiles(j) ==
    \E i \in 1..(j - 1) :
        op.calls[i] = Made("api_get", "/moviefile", "files")

\* the steps are made in the fixed order, none twice
InFixedOrder ==
    \A i, j \in 1..Len(op.calls) :
        (i < j /\ StepRank(op.calls[i]) > 0 /\ StepRank(op.calls[j]) > 0)
            => StepRank(op.calls[i]) < StepRank(op.calls[j])

\* a blocking step is started only after the blocking steps before it
\* returned True
StartedAfterSuccess ==
    \A i, j \in 1..Len(op.calls) :
        (i < j /\ op.calls[i].call = "execute_blocking"
               /\ op.calls[j].call = "execute_blocking")
            => op.calls[i].ret = "True"

\* True is returned only if the rescans, the folder move and the refresh
\* were made and every blocking step that was made returned True
TrueOnlyIfAllSucceeded ==
    (pc = "returned" /\ op.ret = "True")
        => /\ \A i \in 1..Len(op.calls) :
                 op.calls[i].call = "execute_blocking" => op.calls[i].ret = "True"
           /\ \A rank \in {2, 3, 4, 7, 8} : SucceededBefore(rank, Len(op.calls) + 1)
           /\ HadFiles(Len(op.calls) + 1) => SucceededBefore(5, Len(op.calls) + 1)

\* C33 as stated: the steps run in the fixed order, a blocking step is
\* started only after the earlier ones returned success, the source cleanup
\* is attempted only after import/link, the first rescan, the folder move
\* and the second rescan (and the file rename, when the movie has files)
\* succeeded, and True is returned only if every blocking step succeeded.
C33_Original ==
    op.name = "process_single_item"
        => /\ InFixedOrder
           /\ StartedAfterSuccess
           /\ \A j \in 1..Len(op.calls) :
                 op.calls[j].call = "cleanup_source_folder"
                     => /\ \A rank \in {1, 2, 3, 4} : SucceededBefore(rank, j)
                        /\ HadFiles(j) => SucceededBefore(5, j)
           /\ TrueOnlyIfAllSucceeded

\* C33 (amended): as stated, with import/link being a step of the items
\* whose action is RELINK or IMPORT only: for an item whose action is
\* RENAME the pipeline starts at the first rescan, and the source cleanup is
\* attempted and True is returned without an import/link step.
C33_FixedOrderAfterSuccess ==
    op.name = "process_single_item"
        => /\ InFixedOrder
           /\ StartedAfterSuccess
           /\ \A j \in 1..Len(op.calls) :
                 op.calls[j].call = "cleanup_source_folder"
                     => /\ \A rank \in {2, 3, 4} : SucceededBefore(rank, j)
                        /\ (op.action # "RENAME") <=> SucceededBefore(1, j)
                        /\ HadFiles(j) => SucceededBefore(5, j)
           /\ TrueOnlyIfAllSucceeded
           /\ (pc = "returned" /\ op.ret = "True")
                 => ((op.action # "RENAME")
                         <=> SucceededBefore(1, Len(op.calls) + 1))

\* True was returned for an imported movie with files, after the eight steps
\* were made
C33_Witness ==
    /\ op.name = "process_single_item"
    /\ pc = "returned"
    /\ op.ret = "True"
    /\ op.action = "IMPORT"
    /\ \A rank \in {1, 2, 3, 4, 5, 7, 8} : SucceededBefore(rank, Len(op.calls) + 1)
    /\ \E j \in 1..Len(op.calls) : op.calls[j].call = "cleanup_source_folder"

\* the source folder of an item whose action is RENAME was cleaned
C33_WitnessRename ==
    /\ op.name = "process_single_item"
    /\ op.action = "RENAME"
    /\ \E j \in 1..Len(op.calls) : op.calls[j].call = "cleanup_source_folder"

=============================================================================
